---------------------------- MODULE Spec2Model ----------------------------
(***************************************************************************)
(* A model of tcr: the worktree/project model (src/project.go), the change *)
(* status reader (src/unnamed/part_005), the rate limiter                  *)
(* (src/rate_limiter.go), the review cache (src/unnamed/part_000), the     *)
(* review client (src/unnamed/part_003), the control loop                  *)
(* (src/server.go), the worktree forms of the UI (src/app.go), the review  *)
(* formatter (src/project_list.go) and the agent calls (src/agent.go).     *)
(*                                                                         *)
(* Go strings are TLA+ strings where only equality and concatenation are   *)
(* needed.  Worktree names, which the code orders with cmp.Compare, are    *)
(* sequences of byte values compared lexicographically.  A Go pointer that *)
(* may be nil is a sequence of length 0 (nil) or 1 (the pointee).          *)
(* The en dash of the "Pending" label (U+2013) is written "-" because a    *)
(* TLA+ string holds ASCII only.                                           *)
(***************************************************************************)
EXTENDS Integers, Sequences, FiniteSets, TLC

VARIABLES
    \* Worktree.refresh / Status.String          (SpecStatus)
    w,            \* the Worktree being refreshed
    toolList,     \* what `openspec list --json` gave: [err, changes]
    toolShow,     \* what `openspec status --change c --json` gives, per change
    refreshErr,   \* whether Worktree.refresh returned a non-nil error
    label,        \* the last value of Worktree.Description()
    stPc,         \* "new" | "refreshed" | "described"
    \* RateLimiter                                (SpecRLSeq, SpecRLConc)
    rlN,          \* maxPerSecond
    rlMu,         \* mu: TRUE while locked
    rlLast,       \* lastRequestTime
    rlNow,        \* the clock time.Now() reads, in nanoseconds
    rlCallers,    \* the goroutines that call Wait
    rlPc,         \* each goroutine's position in Wait
    rlWaitTime,   \* each goroutine's local waitTime
    rlWake,       \* the earliest time each goroutine's time.Sleep may return
    rlDone,       \* Wait calls each goroutine has completed
    rlFatal,      \* the runtime's fatal error "unlock of unlocked mutex"
    rlStart,      \* when the first Wait was called (-1: not yet)
    rlSeen,       \* lastRequestTime when each goroutine called Wait
    rlRets,       \* how many Wait calls have returned
    rlPrevStamp,  \* lastRequestTime before the latest assignment to it
    rlQuota,      \* Wait calls each goroutine makes
    \* ReviewCache                                (SpecCache, SpecCacheConc)
    rcReviews,    \* reviews: worktree path -> id of its inner map (0: no such key)
    rcHeap,       \* the map[int]string objects, by id
    rcMu,         \* mu: [writer |-> the goroutine holding Lock (0: none),
                  \*      readers |-> the goroutines holding RLock]
    rcPc,         \* each goroutine's position: "idle" | "wait" (called, lock not yet
                  \*   held) | "unlock" (body done, lock held) | "hold" | "mutated"
    rcOp,         \* the call each goroutine is in: [name, path, num, review]
    rcRes,        \* the *string a Get returns
    rcRef,        \* the id of the map a GetAllForWorktree returned (0: none)
    rcStable,     \* per key: the value the last completed writer left, when no
                  \*   writer of the key ran concurrently with it (else Unknown)
    rcOwner,      \* per key: the only writer of the key in flight (0: none or several)
    rcSnap,       \* per goroutine in Get: rcStable of its key when Get was called,
                  \*   Unknown once a writer of the key was called after that
    rcPrev,       \* what Get returned for every key before the latest step that
                  \*   ran a method body or mutated a returned map
    rcLastBy,     \* the goroutine that took that step (0: forgotten)
    rcActive,     \* the goroutines that call the cache
    rcMenu,       \* the calls they make
    rcFrames,     \* whether rcPrev and rcLastBy are recorded
    \* Project                                    (SpecProject)
    worktrees,    \* p.worktrees
    pjOp,         \* the last call on the project: [name, arg, err, failed], arg the
                  \*   name passed (for Refresh: what os.ReadDir gave) and failed
                  \*   naming the step of the call that failed ("none": no step)
    pjPrevLen,    \* len(p.worktrees) when that call was made
    \* GitHubPRClient.Comments                    (SpecComments)
    ghIn,         \* what the two API requests of the last call gave
    ghOut,        \* what the call returned: [review, err, done]
    \* GitHubPRClient.listAllPRs                  (SpecPages)
    lpPc,         \* "idle" | "loop" (before a request) | "done" (returned)
    lpPage,       \* page
    lpQs,         \* qs: the query values, key -> value
    lpAll,        \* allPRs
    lpErr,        \* whether listAllPRs returned an error
    lpReqs,       \* the query of every request made, in order
    lpSizes,      \* the length of every page received, in order
    \* the control loop of Server.Start            (SpecLoop)
    svPc,         \* "idle" (waiting for a tick) | "loaded" | "pulled" | "reviewed" |
                  \*   "applied" | "crashed" (the goroutine panicked)
    svPending,    \* ticks buffered in the channel of time.Tick (0 or 1)
    svCtx,        \* tCtx: "none" | "live" | "cancelled"
    svProjects,   \* projects, as loaded in this tick
    svLog,        \* the phases this tick has run, in order
    svCalls,      \* the external calls each phase of this tick has made, in order
    svErrs,       \* the phases whose error this tick has logged, in order
    svOverlap,    \* whether a tick started before the previous tCtx was cancelled
    \* Worktree.review                             (SpecReview)
    rvIn,         \* what the calls of the last review gave
    rvOut,        \* what it did: [hasReview, err, panic, calls, number, done]
    \* GitHubPRClient.request and its callers      (SpecClient)
    clPc,         \* "idle" | "wait" (in rateLimiter.Wait) | "send" (Wait returned) |
                  \*   "resp" (the GET was issued, its outcome is at hand)
    clMethod,     \* the method that called request ("": none)
    clResp,       \* the outcome of c.client.Do
    clOut,        \* what the last request returned: [err, result, done]
    clWaits,      \* Wait calls completed in the current request call
    clSent,       \* GETs issued in the current request call
    clListWaits,  \* Wait calls completed in the current listAllPRs call
    clPage,       \* page of the current listAllPRs call (0: no listing)
    clCall,       \* the call made on the client: [name, plan (the methods it
                  \*   still has to call), err (what it returned), done]
    \* parseOrigin                                 (SpecOrigin)
    poIn,         \* the parts the origin is made of: [prefix, owner, sep, repo, suffix]
    poOut,        \* what parseOrigin returned: [owner, repo, err, done]
    \* FormattedReview.String                      (SpecFormat)
    fmIn,         \* review.Comments before the call
    fmOut,        \* [comments (review.Comments after it), items (the numbered list), done]
    \* the execution agent                         (SpecAgent)
    agIn,         \* the last invocation: [fn, model, arg]
    agLog,        \* the argument lists handed to `opencode`, latest first
    \* LoadProjects and the projects it returns    (SpecLoad)
    ldIn,         \* what os.ReadDir(repoDir) gave, with what is in each repository
    ldOut,        \* what LoadProjects returned: [projects, err, done]
    ldOp,         \* the last call: [name, project (index), args]
    \* fetchReviews                                (SpecFetch)
    frIn,         \* the projects and what the calls of each review give
    frOut,        \* what fetchReviews did: [err, panic, logs, calls, done]
    \* Server.Start                                (SpecStart)
    ssPassword,   \* s.password, the -passkey flag
    ssEnv,        \* the environment's TCR_PASSKEY
    ssPc,         \* Start: "boot" | "select" | "shutdown" (about to call
                  \*   server.Shutdown) | "closing" (in server.Shutdown) |
                  \*   "send" (at done <- ..., line 162) | "returned"
    ssCtx,        \* ctx: "live" | "cancelled"
    ssShut,       \* whether server.Shutdown was called
    ssRet,        \* what Start returned: "none" | "nil" | "err"
    lsPc,         \* the listener goroutine: "none" | "listen" | "send" | "exit"
    lsVal,        \* what it sends on done: "none" | "nil" | "err"
    ssAuth,       \* the last password a client offered: [asked, supplied, accepted]
    ssCancelAt,   \* where the listener goroutine was when ctx was cancelled
    \* the interactive model                      (SpecUi)
    ui,           \* the model struct m
    uiPending,    \* the messages of commands in flight: [msg, copy]
    uiPanic,      \* whether a handler or View dereferenced a nil pointer
    uiQuit,       \* whether tea.Quit was returned
    uiLast,       \* the destructive calls of the last Update: [msg, state and form
                  \*   before it, destroyed, closed]
    uiView        \* what View rendered after it: [panic, err, body]

statusVars == <<w, toolList, toolShow, refreshErr, label, stPc>>

rlVars ==
    <<rlN, rlMu, rlLast, rlNow, rlCallers, rlPc, rlWaitTime, rlWake, rlDone, rlFatal,
      rlStart, rlSeen, rlRets, rlPrevStamp, rlQuota>>

cacheVars ==
    <<rcReviews, rcHeap, rcMu, rcPc, rcOp, rcRes, rcRef, rcStable, rcOwner, rcSnap,
      rcPrev, rcLastBy, rcActive, rcMenu, rcFrames>>

projectVars == <<worktrees, pjOp, pjPrevLen>>

commentsVars == <<ghIn, ghOut>>

pagesVars == <<lpPc, lpPage, lpQs, lpAll, lpErr, lpReqs, lpSizes>>

loopVars == <<svPc, svPending, svCtx, svProjects, svLog, svCalls, svErrs, svOverlap>>

reviewVars == <<rvIn, rvOut>>

clientVars ==
    <<clPc, clMethod, clResp, clOut, clWaits, clSent, clListWaits, clPage, clCall>>

originVars == <<poIn, poOut>>

formatVars == <<fmIn, fmOut>>

agentVars == <<agIn, agLog>>

loadVars == <<ldIn, ldOut, ldOp>>

fetchVars == <<frIn, frOut>>

startVars ==
    <<ssPassword, ssEnv, ssPc, ssCtx, ssShut, ssRet, lsPc, lsVal, ssAuth, ssCancelAt>>

uiVars == <<ui, uiPending, uiPanic, uiQuit, uiLast, uiView>>

vars ==
    <<statusVars, rlVars, cacheVars, projectVars, commentsVars, pagesVars, loopVars,
      reviewVars, clientVars, originVars, formatVars, agentVars, loadVars,
      fetchVars, startVars, uiVars>>

nonStatusVars ==
    <<rlVars, cacheVars, projectVars, commentsVars, pagesVars, loopVars,
      reviewVars, clientVars, originVars, formatVars, agentVars, loadVars, fetchVars,
      startVars, uiVars>>

nonRLVars ==
    <<statusVars, cacheVars, projectVars, commentsVars, pagesVars, loopVars,
      reviewVars, clientVars, originVars, formatVars, agentVars, loadVars, fetchVars,
      startVars, uiVars>>

nonCacheVars ==
    <<statusVars, rlVars, projectVars, commentsVars, pagesVars, loopVars,
      reviewVars, clientVars, originVars, formatVars, agentVars, loadVars, fetchVars,
      startVars, uiVars>>

nonProjectVars ==
    <<statusVars, rlVars, cacheVars, commentsVars, pagesVars, loopVars,
      reviewVars, clientVars, originVars, formatVars, agentVars, loadVars, fetchVars,
      startVars, uiVars>>

nonCommentsVars ==
    <<statusVars, rlVars, cacheVars, projectVars, pagesVars, loopVars,
      reviewVars, clientVars, originVars, formatVars, agentVars, loadVars, fetchVars,
      startVars, uiVars>>

nonPagesVars ==
    <<statusVars, rlVars, cacheVars, projectVars, commentsVars, loopVars,
      reviewVars, clientVars, originVars, formatVars, agentVars, loadVars, fetchVars,
      startVars, uiVars>>

nonLoopVars ==
    <<statusVars, rlVars, cacheVars, projectVars, commentsVars, pagesVars,
      reviewVars, clientVars, originVars, formatVars, agentVars, loadVars, fetchVars,
      startVars, uiVars>>

nonReviewVars ==
    <<statusVars, rlVars, cacheVars, projectVars, commentsVars, pagesVars, loopVars,
      clientVars, originVars, formatVars, agentVars, loadVars, fetchVars,
      startVars, uiVars>>

nonClientVars ==
    <<statusVars, rlVars, cacheVars, projectVars, commentsVars, pagesVars, loopVars,
      reviewVars, originVars, formatVars, agentVars, loadVars, fetchVars,
      startVars, uiVars>>

nonOriginVars ==
    <<statusVars, rlVars, cacheVars, projectVars, commentsVars, pagesVars, loopVars,
      reviewVars, clientVars, formatVars, agentVars, loadVars, fetchVars,
      startVars, uiVars>>

nonFormatVars ==
    <<statusVars, rlVars, cacheVars, projectVars, commentsVars, pagesVars, loopVars,
      reviewVars, clientVars, originVars, agentVars, loadVars, fetchVars,
      startVars, uiVars>>

nonAgentVars ==
    <<statusVars, rlVars, cacheVars, projectVars, commentsVars, pagesVars, loopVars,
      reviewVars, clientVars, originVars, formatVars, loadVars, fetchVars,
      startVars, uiVars>>

nonLoadVars ==
    <<statusVars, rlVars, cacheVars, projectVars, commentsVars, pagesVars, loopVars,
      reviewVars, clientVars, originVars, formatVars, agentVars, fetchVars,
      startVars, uiVars>>

nonFetchVars ==
    <<statusVars, rlVars, cacheVars, projectVars, commentsVars, pagesVars, loopVars,
      reviewVars, clientVars, originVars, formatVars, agentVars, loadVars,
      startVars, uiVars>>

nonStartVars ==
    <<statusVars, rlVars, cacheVars, projectVars, commentsVars, pagesVars, loopVars,
      reviewVars, clientVars, originVars, formatVars, agentVars, loadVars,
      fetchVars, uiVars>>

nonUiVars ==
    <<statusVars, rlVars, cacheVars, projectVars, commentsVars, pagesVars, loopVars,
      reviewVars, clientVars, originVars, formatVars, agentVars, loadVars,
      fetchVars, startVars>>

-----------------------------------------------------------------------------
(* Bounds *)

\* longest listing `openspec list` returns in the model
MaxChanges == 2

\* the clock is watched every ClockStep nanoseconds, and whenever a
\* time.Sleep runs out
ClockStep == 250000000

\* largest maxRequestsPerSecond a RateLimiter is built with
MaxN == 5

\* the clock is followed while every time and duration Wait computes is at
\* most MaxTime nanoseconds (TLC's integers end at 2^31 - 1)
MaxTime == 2000000000

\* Wait calls per goroutine
MaxCalls == 10

\* goroutines that share one RateLimiter in SpecRLConc
NumGoroutines == 2

\* Wait calls per goroutine in SpecRLConc
ConcCalls == 2

\* most review comments the API returns for one pull request
MaxComments == 3

\* timestamps (pushed_at, created_at) range over 1..MaxStamp
MaxStamp == 3

\* most requests one listAllPRs call is followed through
MaxPages == 3

-----------------------------------------------------------------------------
(* Status (src/unnamed/part_005) *)

Nil == <<>>
Ref(x) == <<x>>
Deref(p) == p[1]

\* Status{}: the zero value
ZeroStatus ==
    [ChangeName |-> "", IsComplete |-> FALSE, ApplyRequires |-> <<>>, Artifacts |-> <<>>]

\* strings.Join(elems, sep)
RECURSIVE Join(_, _)
Join(elems, sep) ==
    IF Len(elems) = 0 THEN ""
    ELSE IF Len(elems) = 1 THEN elems[1]
    ELSE elems[1] \o sep \o Join(Tail(elems), sep)

\* a plausible slip: IsComplete tested before the empty ChangeName
StringCompleteFirst(s) ==
    IF s = Nil THEN "No openspec setup"
    ELSE IF Deref(s).IsComplete THEN "Ready For Review"
    ELSE IF Deref(s).ChangeName = "" THEN "Ready For Change"
    ELSE IF Len(Deref(s).ApplyRequires) = 0 THEN "Ready For Apply"
    ELSE "Pending - " \o Join(Deref(s).ApplyRequires, ", ")

\* func (s *Status) String() string: the switch takes the first true case
String(s) ==
    IF s = Nil THEN "No openspec setup"
    ELSE IF Deref(s).ChangeName = "" THEN "Ready For Change"
    ELSE IF Deref(s).IsComplete THEN "Ready For Review"
    ELSE IF Len(Deref(s).ApplyRequires) = 0 THEN "Ready For Apply"
    ELSE "Pending - " \o Join(Deref(s).ApplyRequires, ", ")

-----------------------------------------------------------------------------
(* Worktree (src/project.go) *)

\* &Worktree{Name: name, Path: path}: every other field has its zero value
NewWorktree(name, path) ==
    [Owner |-> "", Repo |-> "", Name |-> name, Path |-> path, Model |-> "", Status |-> Nil]

\* func (w *Worktree) refresh(ctx) error.  `list` is the result of listChanges,
\* `show` the result of showChange for each change name.
refresh(wt, list, show) ==
    IF list.err
    THEN [w |-> wt, err |-> FALSE]
    ELSE IF Len(list.changes) > 0
    THEN IF show[list.changes[1]].err
         THEN [w |-> [wt EXCEPT !.Status = Ref(ZeroStatus)], err |-> TRUE]
         ELSE [w |-> [wt EXCEPT !.Status = Ref(show[list.changes[1]].status)],
               err |-> FALSE]
    ELSE [w |-> [wt EXCEPT !.Status = Ref(ZeroStatus)], err |-> FALSE]

\* func (w *Worktree) Description() string
Description(wt) == String(wt.Status)

-----------------------------------------------------------------------------
(* The change-tracking tool's outputs the model draws from *)

ChangeNames == {"add-login", "fix-typo"}

RequireLists == {<<>>, <<"tasks">>, <<"specs", "tasks">>}

ArtifactLists == {<<>>}

\* every Status the JSON of `openspec status --change c` can decode to, within the
\* sets above: the tool names the change it was asked about, or leaves the name out
ToolStatuses(c) ==
    [ChangeName : {c, ""}, IsComplete : BOOLEAN,
     ApplyRequires : RequireLists, Artifacts : ArtifactLists]

RECURSIVE SeqsUpTo(_, _)
SeqsUpTo(S, n) ==
    IF n = 0 THEN {<<>>}
    ELSE LET shorter == SeqsUpTo(S, n - 1)
         IN shorter \cup {Append(s, x) : s \in {t \in shorter : Len(t) = n - 1}, x \in S}

\* results of listChanges: an error, or the names in listing order
ListResults ==
    {[err |-> TRUE, changes |-> <<>>]}
        \cup {[err |-> FALSE, changes |-> c] : c \in SeqsUpTo(ChangeNames, MaxChanges)}

\* results of showChange for change c: an error, or a decoded Status
ShowResults(c) ==
    {[err |-> TRUE, status |-> ZeroStatus]}
        \cup {[err |-> FALSE, status |-> s] : s \in ToolStatuses(c)}

\* one result of showChange for every change name
ShowFunctions ==
    {f \in [ChangeNames -> UNION {ShowResults(c) : c \in ChangeNames}] :
        \A c \in ChangeNames : f[c] \in ShowResults(c)}

-----------------------------------------------------------------------------
(* SpecStatus: one worktree is built, refreshed and described *)

InitStatus ==
    /\ w = NewWorktree(<<1>>, <<1>>)
    /\ toolList = [err |-> TRUE, changes |-> <<>>]
    /\ toolShow = [c \in ChangeNames |-> [err |-> TRUE, status |-> ZeroStatus]]
    /\ refreshErr = FALSE
    /\ label = ""
    /\ stPc = "new"

\* wt := &Worktree{...}; wt.refresh(ctx), as AddWorktree and Refresh do
StRefresh ==
    /\ stPc \in {"new", "described"} \/ refreshErr
    /\ \E list \in ListResults, show \in ShowFunctions :
          LET r == refresh(NewWorktree(<<1>>, <<1>>), list, show)
          IN /\ toolList' = list
             /\ toolShow' = show
             /\ w' = r.w
             /\ refreshErr' = r.err
    /\ stPc' = "refreshed"
    /\ UNCHANGED label
    /\ UNCHANGED nonStatusVars

\* the list widget renders a listed item, wt.Description(); a worktree whose
\* refresh returned an error is dropped by AddWorktree and Refresh, never listed
StDescribe ==
    /\ stPc = "refreshed"
    /\ ~refreshErr
    /\ label' = Description(w)
    /\ stPc' = "described"
    /\ UNCHANGED <<w, toolList, toolShow, refreshErr>>
    /\ UNCHANGED nonStatusVars

NextStatus == StRefresh \/ StDescribe


-----------------------------------------------------------------------------
(* Claims about Status.String and Worktree.refresh, checked under SpecStatus *)

\* the listed changes, in listing order, with the Status showChange gives for each
Listed == [i \in 1..Len(toolList.changes) |-> toolShow[toolList.changes[i]]]

\* the label the display rule prescribes for a list of outstanding requirements
PendingLabel(reqs) ==
    IF reqs = <<"tasks">> THEN "Pending - tasks"
    ELSE IF reqs = <<"specs", "tasks">> THEN "Pending - specs, tasks"
    ELSE "?"

\* C8: Status.String follows the priority order absent, empty ChangeName,
\* IsComplete, empty ApplyRequires, pending; the five cases are exclusive and
\* exhaustive, and the pending label lists the requirements in their order.
C8_StringPriority ==
    stPc = "described" =>
        /\ w.Status = Nil => label = "No openspec setup"
        /\ w.Status # Nil =>
            LET s == Deref(w.Status)
            IN /\ s.ChangeName = "" => label = "Ready For Change"
               /\ s.ChangeName # "" /\ s.IsComplete => label = "Ready For Review"
               /\ s.ChangeName # "" /\ ~s.IsComplete /\ s.ApplyRequires = <<>>
                     => label = "Ready For Apply"
               /\ s.ChangeName # "" /\ ~s.IsComplete /\ s.ApplyRequires # <<>>
                     => label = PendingLabel(s.ApplyRequires)

\* a Status that three cases of the switch match is described by the first of them
C8_Witness ==
    /\ stPc = "described"
    /\ w.Status # Nil
    /\ Deref(w.Status).ChangeName = ""
    /\ Deref(w.Status).IsComplete
    /\ Deref(w.Status).ApplyRequires = <<"specs", "tasks">>
    /\ label = "Ready For Change"

\* C9: the derived Status is the Status of the first listed change that is not
\* complete, for every listing whose changes can all be shown.
C9_FirstIncomplete ==
    ( /\ stPc # "new"
      /\ ~toolList.err
      /\ \A i \in DOMAIN Listed : ~Listed[i].err
      /\ \E i \in DOMAIN Listed : ~Listed[i].status.IsComplete )
    => LET first == CHOOSE i \in DOMAIN Listed :
                        /\ ~Listed[i].status.IsComplete
                        /\ \A j \in 1..(i - 1) : Listed[j].status.IsComplete
       IN /\ ~refreshErr
          /\ w.Status = Ref(Listed[first].status)

\* C10: when no change is listed, or every listed change is complete, the derived
\* Status is present with an empty changeName and isComplete = false, and the
\* worktree displays "Ready For Change".
C10_NoBlockingStatus ==
    ( /\ stPc # "new"
      /\ ~toolList.err
      /\ \A i \in DOMAIN Listed : ~Listed[i].err /\ Listed[i].status.IsComplete )
    => /\ ~refreshErr
       /\ w.Status # Nil
       /\ Deref(w.Status).ChangeName = ""
       /\ ~Deref(w.Status).IsComplete
       /\ stPc = "described" => label = "Ready For Change"

\* C11: when the change-tracking tool fails during status derivation, in
\* listChanges or in showChange of the change shown first, Worktree.refresh
\* returns no error (so that neither Project.Refresh nor AddWorktree is aborted)
\* and the worktree's Status is left absent.
C11_FailuresSwallowed ==
    ( /\ stPc # "new"
      /\ \/ toolList.err
         \/ Len(toolList.changes) > 0 /\ toolShow[toolList.changes[1]].err )
    => /\ ~refreshErr
       /\ w.Status = Nil

-----------------------------------------------------------------------------
(* RateLimiter (src/rate_limiter.go) *)

Goroutines == 1..NumGoroutines

\* time.Second, a time.Duration: times and durations are in nanoseconds
Second == 1000000000

\* time.Second / time.Duration(maxRequestsPerSecond): integer division
MinInterval(n) == Second \div n

\* a plausible slip: sleeps for the time already elapsed, not the time left
WaitTimeElapsed(now, last, minInterval) == now - last

\* waitTime := rl.minIntervalBetweenRequests - timeSinceLastRequest
WaitTime(now, last, minInterval) == minInterval - (now - last)

\* NewRateLimiter(n), built at time `now`
NewRateLimiter(n, now) ==
    [maxPerSecond |-> n, lastRequestTime |-> now - Second]

InitRL(rates, callers, quota) ==
    /\ rlN \in rates
    /\ rlQuota = quota
    /\ rlNow = 0
    /\ rlLast = NewRateLimiter(rlN, 0).lastRequestTime
    /\ rlMu = FALSE
    /\ rlCallers = callers
    /\ rlPc = [g \in Goroutines |-> "idle"]
    /\ rlWaitTime = [g \in Goroutines |-> 0]
    /\ rlWake = [g \in Goroutines |-> 0]
    /\ rlDone = [g \in Goroutines |-> 0]
    /\ rlFatal = FALSE
    /\ rlStart = -1
    /\ rlSeen = [g \in Goroutines |-> 0]
    /\ rlRets = 0
    /\ rlPrevStamp = 0

\* how far the clock is from the end of each time.Sleep that has not run out
WakeSteps == {rlWake[g] - rlNow : g \in {h \in Goroutines : rlPc[h] = "sleep" /\ rlNow < rlWake[h]}}

\* the clock advances between any two steps: by ClockStep, or to the instant
\* a time.Sleep runs out; it stops where a Sleep begun then could end after
\* MaxTime, or where more than MaxTime would have passed since lastRequestTime
RlTick ==
    /\ \E d \in {ClockStep} \cup WakeSteps :
          /\ rlNow + d <= MaxTime - MinInterval(rlN)
          /\ rlNow + d - MaxTime <= rlLast
          /\ rlNow' = rlNow + d
    /\ UNCHANGED <<rlN, rlMu, rlLast, rlCallers, rlPc, rlWaitTime, rlWake, rlDone,
                   rlFatal, rlStart, rlSeen, rlRets, rlPrevStamp, rlQuota>>
    /\ UNCHANGED nonRLVars

\* a caller enters rl.Wait()
RlCall(g) ==
    /\ g \in rlCallers
    /\ rlPc[g] = "idle"
    /\ rlDone[g] < rlQuota
    /\ rlPc' = [rlPc EXCEPT ![g] = "lock"]
    /\ rlStart' = IF rlStart = -1 THEN rlNow ELSE rlStart
    /\ rlSeen' = [rlSeen EXCEPT ![g] = rlLast]
    /\ UNCHANGED <<rlN, rlMu, rlLast, rlNow, rlCallers, rlWaitTime, rlWake, rlDone,
                   rlFatal, rlRets, rlPrevStamp, rlQuota>>
    /\ UNCHANGED nonRLVars

\* rl.mu.Lock() (line 30; the deferred Unlock runs in RlReturn)
RlLock(g) ==
    /\ rlPc[g] = "lock"
    /\ ~rlMu
    /\ rlMu' = TRUE
    /\ rlPc' = [rlPc EXCEPT ![g] = "check"]
    /\ UNCHANGED <<rlN, rlLast, rlNow, rlCallers, rlWaitTime, rlWake, rlDone, rlFatal,
                   rlStart, rlSeen, rlRets, rlPrevStamp, rlQuota>>
    /\ UNCHANGED nonRLVars

\* now := time.Now(); timeSinceLastRequest := now.Sub(rl.lastRequestTime);
\* if timeSinceLastRequest < rl.minIntervalBetweenRequests { waitTime := ... }
RlCheck(g) ==
    /\ rlPc[g] = "check"
    /\ IF rlNow - rlLast < MinInterval(rlN)
       THEN /\ rlWaitTime' = [rlWaitTime EXCEPT ![g] = WaitTime(rlNow, rlLast, MinInterval(rlN))]
            /\ rlPc' = [rlPc EXCEPT ![g] = "unlock"]
       ELSE /\ rlPc' = [rlPc EXCEPT ![g] = "stamp"]
            /\ UNCHANGED rlWaitTime
    /\ UNCHANGED <<rlN, rlMu, rlLast, rlNow, rlCallers, rlWake, rlDone, rlFatal,
                   rlStart, rlSeen, rlRets, rlPrevStamp, rlQuota>>
    /\ UNCHANGED nonRLVars

\* rl.mu.Unlock() before sleeping (line 39)
RlUnlock(g) ==
    /\ rlPc[g] = "unlock"
    /\ rlFatal' = (rlFatal \/ ~rlMu)
    /\ rlMu' = FALSE
    /\ rlPc' = [rlPc EXCEPT ![g] = "sleepcall"]
    /\ UNCHANGED <<rlN, rlLast, rlNow, rlCallers, rlWaitTime, rlWake, rlDone,
                   rlStart, rlSeen, rlRets, rlPrevStamp, rlQuota>>
    /\ UNCHANGED nonRLVars

\* time.Sleep(waitTime) begins (line 40): it returns no earlier than waitTime later
RlSleep(g) ==
    /\ rlPc[g] = "sleepcall"
    /\ rlWake' = [rlWake EXCEPT ![g] = rlNow + rlWaitTime[g]]
    /\ rlWaitTime' = [rlWaitTime EXCEPT ![g] = 0]    \* the local is dead from here
    /\ rlPc' = [rlPc EXCEPT ![g] = "sleep"]
    /\ UNCHANGED <<rlN, rlMu, rlLast, rlNow, rlCallers, rlDone, rlFatal,
                   rlStart, rlSeen, rlRets, rlPrevStamp, rlQuota>>
    /\ UNCHANGED nonRLVars

\* time.Sleep returns
RlWakeUp(g) ==
    /\ rlPc[g] = "sleep"
    /\ rlNow >= rlWake[g]
    /\ rlWake' = [rlWake EXCEPT ![g] = 0]
    /\ rlPc' = [rlPc EXCEPT ![g] = "relock"]
    /\ UNCHANGED <<rlN, rlMu, rlLast, rlNow, rlCallers, rlWaitTime, rlDone,
                   rlFatal, rlStart, rlSeen, rlRets, rlPrevStamp, rlQuota>>
    /\ UNCHANGED nonRLVars

\* a plausible slip: Wait goes on after the sleep without taking the lock again
RlRelockSkipsLock(g) ==
    /\ rlPc[g] = "relock"
    /\ rlPc' = [rlPc EXCEPT ![g] = "stamp"]
    /\ UNCHANGED <<rlN, rlMu, rlLast, rlNow, rlCallers, rlWaitTime, rlWake, rlDone,
                   rlFatal, rlStart, rlSeen, rlRets, rlPrevStamp, rlQuota>>
    /\ UNCHANGED nonRLVars

\* rl.mu.Lock() after sleeping (line 41)
RlRelock(g) ==
    /\ rlPc[g] = "relock"
    /\ ~rlMu
    /\ rlMu' = TRUE
    /\ rlPc' = [rlPc EXCEPT ![g] = "stamp"]
    /\ UNCHANGED <<rlN, rlLast, rlNow, rlCallers, rlWaitTime, rlWake, rlDone, rlFatal,
                   rlStart, rlSeen, rlRets, rlPrevStamp, rlQuota>>
    /\ UNCHANGED nonRLVars

\* rl.lastRequestTime = time.Now() (line 44)
RlStamp(g) ==
    /\ rlPc[g] = "stamp"
    /\ rlLast' = rlNow
    /\ rlPrevStamp' = rlLast
    /\ rlPc' = [rlPc EXCEPT ![g] = "ret"]
    /\ UNCHANGED <<rlN, rlMu, rlNow, rlCallers, rlWaitTime, rlWake, rlDone, rlFatal,
                   rlStart, rlSeen, rlRets, rlQuota>>
    /\ UNCHANGED nonRLVars

\* the deferred rl.mu.Unlock() runs and Wait returns: the request is issued
RlReturn(g) ==
    /\ rlPc[g] = "ret"
    /\ rlFatal' = (rlFatal \/ ~rlMu)
    /\ rlMu' = FALSE
    /\ rlPc' = [rlPc EXCEPT ![g] = "idle"]
    /\ rlDone' = [rlDone EXCEPT ![g] = @ + 1]
    /\ rlRets' = rlRets + 1
    /\ rlSeen' = [rlSeen EXCEPT ![g] = 0]
    /\ UNCHANGED <<rlN, rlLast, rlNow, rlCallers, rlWaitTime, rlWake, rlStart,
                   rlPrevStamp, rlQuota>>
    /\ UNCHANGED nonRLVars

NextRL ==
    \/ RlTick
    \/ \E g \in Goroutines :
          \/ RlCall(g)
          \/ RlLock(g)
          \/ RlCheck(g)
          \/ RlUnlock(g)
          \/ RlSleep(g)
          \/ RlWakeUp(g)
          \/ RlRelock(g)
          \/ RlStamp(g)
          \/ RlReturn(g)

\* the next step of goroutine g, wherever it is in Wait
RlStep(g) ==
    \/ RlCall(g)
    \/ RlLock(g)
    \/ RlCheck(g)
    \/ RlUnlock(g)
    \/ RlSleep(g)
    \/ RlWakeUp(g)
    \/ RlRelock(g)
    \/ RlStamp(g)
    \/ RlReturn(g)

\* the clock as the fair runs see it: it is followed by ClockStep through the
\* first interval, and it reaches the end of every time.Sleep
RlClock ==
    /\ \E d \in (IF rlNow < MinInterval(rlN) THEN {ClockStep} ELSE {}) \cup WakeSteps :
          rlNow' = rlNow + d
    /\ UNCHANGED <<rlN, rlMu, rlLast, rlCallers, rlPc, rlWaitTime, rlWake, rlDone,
                   rlFatal, rlStart, rlSeen, rlRets, rlPrevStamp, rlQuota>>
    /\ UNCHANGED nonRLVars

NextRLFair == RlClock \/ \E g \in Goroutines : RlStep(g)

-----------------------------------------------------------------------------
(* ReviewCache (src/unnamed/part_000) *)

\* the goroutines that share one ReviewCache
Procs == {1, 2}

Paths == {"/wt1", "/wt2"}     \* the elements of PathList

PRNums == {123, 456}

Reviews == {"review1", "review2"}

Keys == Paths \X PRNums

\* The map[int]string objects.  make() returns an object distinct from every
\* live one; which one is the allocator's choice, and the model takes a fixed
\* one per allocation site: the inner map a path gets in Set, and the copy a
\* goroutine gets in GetAllForWorktree.
PathList == <<"/wt1", "/wt2">>

MapIdOfPath(q) == CHOOSE i \in 1..Len(PathList) : PathList[i] = q

MapIdOfCaller(p) == Len(PathList) + p

MapIds == 1..(Len(PathList) + Cardinality(Procs))

\* make(map[int]string)
EmptyMap == <<>>

\* m[k] = v on a map[int]string
MapPut(m, k, v) == [x \in (DOMAIN m) \cup {k} |-> IF x = k THEN v ELSE m[x]]

\* delete(m, k) on a map[int]string
MapDelete(m, k) == [x \in (DOMAIN m) \ {k} |-> m[x]]

\* the body of Get (lines 27-32)
CacheGet(reviews, heap, path, num) ==
    IF reviews[path] # 0 /\ num \in DOMAIN heap[reviews[path]]
    THEN Ref(heap[reviews[path]][num])
    ELSE Nil

\* a plausible slip: an existing review is not replaced
CacheSetKeepsOld(reviews, heap, fresh, path, num, review) ==
    LET withWt == IF reviews[path] = 0 THEN [reviews EXCEPT ![path] = fresh] ELSE reviews
        id == withWt[path]
        base == IF reviews[path] = 0 THEN EmptyMap ELSE heap[id]
    IN [reviews |-> withWt,
        heap |-> [heap EXCEPT ![id] = IF num \in DOMAIN base THEN base
                                      ELSE MapPut(base, num, review)]]

\* the body of Set (lines 41-44); `fresh` is the id make() would give a new map
CacheSet(reviews, heap, fresh, path, num, review) ==
    LET withWt == IF reviews[path] = 0 THEN [reviews EXCEPT ![path] = fresh] ELSE reviews
        id == withWt[path]
        base == IF reviews[path] = 0 THEN EmptyMap ELSE heap[id]
    IN [reviews |-> withWt, heap |-> [heap EXCEPT ![id] = MapPut(base, num, review)]]

\* a plausible slip: the worktree's map is dropped while it still holds reviews
CacheRemoveDropsWorktree(reviews, heap, path, num) ==
    IF reviews[path] # 0
    THEN LET id == reviews[path]
             wtCache == MapDelete(heap[id], num)
         IN [reviews |-> [reviews EXCEPT ![path] = 0],
             heap |-> [heap EXCEPT ![id] = wtCache]]
    ELSE [reviews |-> reviews, heap |-> heap]

\* a plausible slip: a worktree's map is kept when its last review is removed
CacheRemoveKeepsEmpty(reviews, heap, path, num) ==
    IF reviews[path] # 0
    THEN [reviews |-> reviews,
          heap |-> [heap EXCEPT ![reviews[path]] = MapDelete(heap[reviews[path]], num)]]
    ELSE [reviews |-> reviews, heap |-> heap]

\* the body of Remove (lines 53-59)
CacheRemove(reviews, heap, path, num) ==
    IF reviews[path] # 0
    THEN LET id == reviews[path]
             wtCache == MapDelete(heap[id], num)
         IN IF Cardinality(DOMAIN wtCache) = 0
            THEN [reviews |-> [reviews EXCEPT ![path] = 0],
                  heap |-> [heap EXCEPT ![id] = wtCache]]
            ELSE [reviews |-> reviews, heap |-> [heap EXCEPT ![id] = wtCache]]
    ELSE [reviews |-> reviews, heap |-> heap]

\* a plausible slip: every worktree is dropped, as Clear does
CacheRemoveWorktreeAll(reviews, heap, path) ==
    [reviews |-> [q \in Paths |-> 0], heap |-> heap]

\* the body of RemoveWorktree (line 68)
CacheRemoveWorktree(reviews, heap, path) ==
    [reviews |-> [reviews EXCEPT ![path] = 0], heap |-> heap]

\* a plausible slip: the cache's own map is returned, not a copy
CacheGetAllNoCopy(reviews, heap, fresh, path) ==
    IF reviews[path] # 0
    THEN [heap |-> heap, result |-> reviews[path]]
    ELSE [heap |-> [heap EXCEPT ![fresh] = EmptyMap], result |-> fresh]

\* the body of GetAllForWorktree (lines 77-85): the result is a new map in
\* either branch
CacheGetAll(reviews, heap, fresh, path) ==
    IF reviews[path] # 0
    THEN [heap |-> [heap EXCEPT ![fresh] = heap[reviews[path]]], result |-> fresh]
    ELSE [heap |-> [heap EXCEPT ![fresh] = EmptyMap], result |-> fresh]

\* the body of Clear (line 93)
CacheClear(reviews, heap) ==
    [reviews |-> [q \in Paths |-> 0], heap |-> heap]

\* the calls a goroutine can make
NoOp == [name |-> "", path |-> "", num |-> 0, review |-> ""]

GetOps == {[name |-> "Get", path |-> q, num |-> n, review |-> ""] : q \in Paths, n \in PRNums}

SetOps ==
    {[name |-> "Set", path |-> q, num |-> n, review |-> v] :
        q \in Paths, n \in PRNums, v \in Reviews}

RemoveOps ==
    {[name |-> "Remove", path |-> q, num |-> n, review |-> ""] : q \in Paths, n \in PRNums}

RemoveWorktreeOps ==
    {[name |-> "RemoveWorktree", path |-> q, num |-> 0, review |-> ""] : q \in Paths}

GetAllOps ==
    {[name |-> "GetAllForWorktree", path |-> q, num |-> 0, review |-> ""] : q \in Paths}

ClearOps == {[name |-> "Clear", path |-> "", num |-> 0, review |-> ""]}

CacheOps == GetOps \cup SetOps \cup RemoveOps \cup RemoveWorktreeOps \cup GetAllOps \cup ClearOps

\* the methods that take mu.Lock(); the others take mu.RLock()
IsWriter(op) == op.name \in {"Set", "Remove", "RemoveWorktree", "Clear"}

\* whether a writer's call can change what Get returns for key k
Touches(op, k) ==
    \/ op.name \in {"Set", "Remove"} /\ k = <<op.path, op.num>>
    \/ op.name = "RemoveWorktree" /\ k[1] = op.path
    \/ op.name = "Clear"

\* what Get returns for every key
View(reviews, heap) == [k \in Keys |-> CacheGet(reviews, heap, k[1], k[2])]

\* the ids of the maps the cache or a caller refers to
LiveIds(reviews, ref) == ({reviews[q] : q \in Paths} \cup {ref[p] : p \in Procs}) \ {0}

\* garbage collection: a map nothing refers to is gone
Collect(heap, live) == [i \in MapIds |-> IF i \in live THEN heap[i] ELSE EmptyMap]

Unknown == <<"?", "?">>

\* NewReviewCache()
InitCache(active, menu, frames) ==
    /\ rcActive = active
    /\ rcMenu = menu
    /\ rcFrames = frames
    /\ rcReviews = [q \in Paths |-> 0]
    /\ rcHeap = [i \in MapIds |-> EmptyMap]
    /\ rcMu = [writer |-> 0, readers |-> {}]
    /\ rcPc = [p \in Procs |-> "idle"]
    /\ rcOp = [p \in Procs |-> NoOp]
    /\ rcRes = [p \in Procs |-> Nil]
    /\ rcRef = [p \in Procs |-> 0]
    /\ rcStable = [k \in Keys |-> Nil]
    /\ rcOwner = [k \in Keys |-> 0]
    /\ rcSnap = [p \in Procs |-> Unknown]
    /\ rcPrev = [k \in Keys |-> Nil]
    /\ rcLastBy = 0

\* a call is in flight from the call to the return
InFlight(p) == rcPc[p] \in {"wait", "unlock"}

\* the writers in flight, other than p, that can change key k
OtherWriters(p, k) ==
    {q \in Procs \ {p} : InFlight(q) /\ IsWriter(rcOp[q]) /\ Touches(rcOp[q], k)}

\* what a writer leaves under a key it touches
Effect(op) == IF op.name = "Set" THEN Ref(op.review) ELSE Nil

NoPrev == [k \in Keys |-> Nil]

\* goroutine p calls a method of the cache
RcCall(p, op) ==
    /\ p \in rcActive
    /\ op \in rcMenu
    /\ rcPc[p] = "idle"
    /\ rcPc' = [rcPc EXCEPT ![p] = "wait"]
    /\ rcOp' = [rcOp EXCEPT ![p] = op]
    /\ rcStable' = [k \in Keys |->
                      IF IsWriter(op) /\ Touches(op, k) THEN Unknown ELSE rcStable[k]]
    /\ rcOwner' = [k \in Keys |->
                      IF IsWriter(op) /\ Touches(op, k)
                      THEN (IF OtherWriters(p, k) = {} THEN p ELSE 0)
                      ELSE rcOwner[k]]
    /\ rcSnap' = [q \in Procs |->
                      IF q = p
                      THEN (IF op.name = "Get" THEN rcStable[<<op.path, op.num>>] ELSE Unknown)
                      ELSE IF /\ InFlight(q) /\ rcOp[q].name = "Get" /\ IsWriter(op)
                              /\ Touches(op, <<rcOp[q].path, rcOp[q].num>>)
                           THEN Unknown
                           ELSE rcSnap[q]]
    /\ UNCHANGED <<rcReviews, rcHeap, rcMu, rcRes, rcRef, rcPrev, rcLastBy, rcActive, rcMenu, rcFrames>>
    /\ UNCHANGED nonCacheVars

\* rc.mu.Lock() or rc.mu.RLock() succeeds and the body of the method runs
\* under the lock, which is held until RcReturn
RcRun(p) ==
    /\ rcPc[p] = "wait"
    /\ rcMu.writer = 0
    /\ IF IsWriter(rcOp[p])
       THEN /\ rcMu.readers = {}
            /\ rcMu' = [rcMu EXCEPT !.writer = p]
       ELSE rcMu' = [rcMu EXCEPT !.readers = @ \cup {p}]
    /\ LET op == rcOp[p]
       IN \/ /\ op.name = "Get"
             /\ rcRes' = [rcRes EXCEPT ![p] = CacheGet(rcReviews, rcHeap, op.path, op.num)]
             /\ UNCHANGED <<rcReviews, rcHeap, rcRef>>
          \/ /\ op.name = "Set"
             /\ LET r == CacheSet(rcReviews, rcHeap, MapIdOfPath(op.path), op.path,
                                  op.num, op.review)
                IN /\ rcReviews' = r.reviews
                   /\ rcHeap' = Collect(r.heap, LiveIds(r.reviews, rcRef))
             /\ UNCHANGED <<rcRes, rcRef>>
          \/ /\ op.name = "Remove"
             /\ LET r == CacheRemove(rcReviews, rcHeap, op.path, op.num)
                IN /\ rcReviews' = r.reviews
                   /\ rcHeap' = Collect(r.heap, LiveIds(r.reviews, rcRef))
             /\ UNCHANGED <<rcRes, rcRef>>
          \/ /\ op.name = "RemoveWorktree"
             /\ LET r == CacheRemoveWorktree(rcReviews, rcHeap, op.path)
                IN /\ rcReviews' = r.reviews
                   /\ rcHeap' = Collect(r.heap, LiveIds(r.reviews, rcRef))
             /\ UNCHANGED <<rcRes, rcRef>>
          \/ /\ op.name = "GetAllForWorktree"
             /\ LET r == CacheGetAll(rcReviews, rcHeap, MapIdOfCaller(p), op.path)
                IN /\ rcRef' = [rcRef EXCEPT ![p] = r.result]
                   /\ rcHeap' = r.heap
             /\ UNCHANGED <<rcReviews, rcRes>>
          \/ /\ op.name = "Clear"
             /\ LET r == CacheClear(rcReviews, rcHeap)
                IN /\ rcReviews' = r.reviews
                   /\ rcHeap' = Collect(r.heap, LiveIds(r.reviews, rcRef))
             /\ UNCHANGED <<rcRes, rcRef>>
    /\ rcPc' = [rcPc EXCEPT ![p] = "unlock"]
    /\ rcPrev' = IF rcFrames THEN View(rcReviews, rcHeap) ELSE rcPrev
    /\ rcLastBy' = IF rcFrames THEN p ELSE rcLastBy
    /\ UNCHANGED <<rcOp, rcStable, rcOwner, rcSnap, rcActive, rcMenu, rcFrames>>
    /\ UNCHANGED nonCacheVars

\* the deferred Unlock/RUnlock runs and the method returns
RcReturn(p) ==
    /\ rcPc[p] = "unlock"
    /\ rcMu' = IF IsWriter(rcOp[p])
               THEN [rcMu EXCEPT !.writer = 0]
               ELSE [rcMu EXCEPT !.readers = @ \ {p}]
    /\ rcPc' = [rcPc EXCEPT ![p] = IF rcOp[p].name = "GetAllForWorktree" THEN "hold" ELSE "idle"]
    /\ rcOp' = [rcOp EXCEPT ![p] = IF rcOp[p].name = "GetAllForWorktree" THEN @ ELSE NoOp]
    /\ rcRes' = [rcRes EXCEPT ![p] = Nil]
    /\ rcStable' = [k \in Keys |->
                      IF IsWriter(rcOp[p]) /\ Touches(rcOp[p], k) /\ rcOwner[k] = p
                      THEN Effect(rcOp[p])
                      ELSE rcStable[k]]
    /\ rcOwner' = [k \in Keys |-> IF rcOwner[k] = p THEN 0 ELSE rcOwner[k]]
    /\ rcSnap' = [rcSnap EXCEPT ![p] = Unknown]
    /\ rcPrev' = IF rcLastBy = p THEN NoPrev ELSE rcPrev
    /\ rcLastBy' = IF rcLastBy = p THEN 0 ELSE rcLastBy
    /\ UNCHANGED <<rcReviews, rcHeap, rcRef, rcActive, rcMenu, rcFrames>>
    /\ UNCHANGED nonCacheVars

\* the caller writes to, or deletes from, the map GetAllForWorktree returned
RcMutate(p) ==
    /\ rcPc[p] = "hold"
    /\ \E n \in PRNums :
          \/ rcHeap' = [rcHeap EXCEPT ![rcRef[p]] = MapPut(@, n, "modified")]
          \/ rcHeap' = [rcHeap EXCEPT ![rcRef[p]] = MapDelete(@, n)]
    /\ rcPc' = [rcPc EXCEPT ![p] = "mutated"]
    /\ rcPrev' = IF rcFrames THEN View(rcReviews, rcHeap) ELSE rcPrev
    /\ rcLastBy' = IF rcFrames THEN p ELSE rcLastBy
    /\ UNCHANGED <<rcReviews, rcMu, rcOp, rcRes, rcRef, rcStable, rcOwner, rcSnap,
                   rcActive, rcMenu, rcFrames>>
    /\ UNCHANGED nonCacheVars

\* the caller lets go of the returned map
RcDrop(p) ==
    /\ rcPc[p] \in {"hold", "mutated"}
    /\ rcPc' = [rcPc EXCEPT ![p] = "idle"]
    /\ rcOp' = [rcOp EXCEPT ![p] = NoOp]
    /\ rcRef' = [rcRef EXCEPT ![p] = 0]
    /\ rcHeap' = Collect(rcHeap, LiveIds(rcReviews, [rcRef EXCEPT ![p] = 0]))
    /\ rcPrev' = IF rcLastBy = p THEN NoPrev ELSE rcPrev
    /\ rcLastBy' = IF rcLastBy = p THEN 0 ELSE rcLastBy
    /\ UNCHANGED <<rcReviews, rcMu, rcRes, rcStable, rcOwner, rcSnap, rcActive,
                   rcMenu, rcFrames>>
    /\ UNCHANGED nonCacheVars

\* the steps of goroutines that only call Get and the four writers
NextCacheConc ==
    \E p \in Procs :
        \/ \E op \in CacheOps : RcCall(p, op)
        \/ RcRun(p)
        \/ RcReturn(p)

NextCache ==
    \E p \in Procs :
        \/ \E op \in CacheOps : RcCall(p, op)
        \/ RcRun(p)
        \/ RcReturn(p)
        \/ RcMutate(p)
        \/ RcDrop(p)

-----------------------------------------------------------------------------
(* Claims about ReviewCache *)

\* what Get returns for every key now
RcView == View(rcReviews, rcHeap)

\* C4 (SpecCacheConc): a Get called when the last writer of its key had
\* returned (no writer of the key having run concurrently with that writer), and
\* during which no writer of the key is called, returns what that writer left:
\* the review of a Set, or absent after Remove, RemoveWorktree, Clear or when
\* nothing was ever stored.
C4_Linearizable ==
    \A p \in Procs :
        rcPc[p] = "unlock" /\ rcOp[p].name = "Get" /\ rcSnap[p] # Unknown
            => rcRes[p] = rcSnap[p]

\* a Get returns the stored review while another goroutine is inside a Set on
\* the other review number of the same worktree
C4_Witness ==
    \E p \in Procs, q \in Procs :
        /\ p # q
        /\ rcPc[p] = "unlock" /\ rcOp[p].name = "Get"
        /\ rcSnap[p] = Ref("review2") /\ rcRes[p] = Ref("review2")
        /\ rcPc[q] = "wait" /\ rcOp[q].name = "Set"
        /\ rcOp[q].path = rcOp[p].path /\ rcOp[q].num # rcOp[p].num

\* C5 (SpecCache): right after RemoveWorktree(p) ran, Get returns absent for
\* every key of path p and what it returned before for every other key; in
\* particular nothing changes when p had no entries.
C5_RemoveWorktreeFrame ==
    \A p \in Procs :
        rcPc[p] = "unlock" /\ rcOp[p].name = "RemoveWorktree" /\ rcLastBy = p
            => /\ RcView = [k \in Keys |-> IF k[1] = rcOp[p].path THEN Nil ELSE rcPrev[k]]
               /\ rcReviews[rcOp[p].path] = 0

\* RemoveWorktree("/wt1") ran on a cache holding two reviews of /wt1 and one of /wt2
C5_Witness ==
    \E p \in Procs :
        /\ rcPc[p] = "unlock" /\ rcLastBy = p
        /\ rcOp[p].name = "RemoveWorktree" /\ rcOp[p].path = "/wt1"
        /\ rcPrev[<<"/wt1", 123>>] # Nil /\ rcPrev[<<"/wt1", 456>>] # Nil
        /\ rcPrev[<<"/wt2", 123>>] # Nil

\* C6 (SpecCache): right after Remove(p, n) ran, Get(p, n) returns absent and
\* Get returns what it returned before for every other key; nothing changes
\* when (p, n) was not cached.
C6_RemoveFrame ==
    \A p \in Procs :
        rcPc[p] = "unlock" /\ rcOp[p].name = "Remove" /\ rcLastBy = p
            => LET key == <<rcOp[p].path, rcOp[p].num>>
               IN /\ RcView[key] = Nil
                  /\ \A k \in Keys \ {key} : RcView[k] = rcPrev[k]
                  /\ rcPrev[key] = Nil => RcView = rcPrev

\* Remove("/wt1", 123) ran on a cache holding that review, another review of
\* /wt1 and a review of /wt2
C6_Witness ==
    \E p \in Procs :
        /\ rcPc[p] = "unlock" /\ rcLastBy = p
        /\ rcOp[p].name = "Remove" /\ rcOp[p].path = "/wt1" /\ rcOp[p].num = 123
        /\ rcPrev[<<"/wt1", 123>>] # Nil /\ rcPrev[<<"/wt1", 456>>] # Nil
        /\ rcPrev[<<"/wt2", 456>>] # Nil

\* C34 (SpecCache): after any sequence of Set, Remove, RemoveWorktree and
\* Clear calls (and Get, GetAllForWorktree and writes to the maps these
\* return), a path is a key of the outer map exactly when Get finds a review
\* under it: no path maps to an empty per-worktree map.
C34_NoEmptyWorktreeMap ==
    \A q \in Paths :
        /\ rcReviews[q] # 0 <=> \E n \in PRNums : CacheGet(rcReviews, rcHeap, q, n) # Nil
        /\ rcReviews[q] # 0 => rcHeap[rcReviews[q]] # EmptyMap

\* Remove("/wt1", 123) ran on a cache holding only that review of /wt1: the
\* path is no key of the outer map any more
C34_Witness ==
    \E p \in Procs :
        /\ rcPc[p] = "unlock" /\ rcLastBy = p
        /\ rcOp[p].name = "Remove" /\ rcOp[p].path = "/wt1" /\ rcOp[p].num = 123
        /\ rcPrev[<<"/wt1", 123>>] # Nil /\ rcPrev[<<"/wt1", 456>>] = Nil
        /\ rcReviews["/wt1"] = 0

\* C7 (SpecCache): GetAllForWorktree(p) returns a map that holds exactly the
\* cached entries of p and leaves the cache as it was; writing to or deleting
\* from the returned map changes nothing Get returns (hence nothing a later
\* GetAllForWorktree copies).
C7_GetAllFresh ==
    \A p \in Procs :
        /\ rcPc[p] = "unlock" /\ rcOp[p].name = "GetAllForWorktree" /\ rcLastBy = p
              => /\ \A n \in PRNums :
                       IF n \in DOMAIN rcHeap[rcRef[p]]
                       THEN rcPrev[<<rcOp[p].path, n>>] = Ref(rcHeap[rcRef[p]][n])
                       ELSE rcPrev[<<rcOp[p].path, n>>] = Nil
                 /\ RcView = rcPrev
        /\ rcPc[p] = "mutated" /\ rcLastBy = p => RcView = rcPrev

\* the caller overwrote, in the map it got for a worktree, a review the cache holds
C7_Witness ==
    \E p \in Procs :
        /\ rcPc[p] = "mutated" /\ rcLastBy = p
        /\ 123 \in DOMAIN rcHeap[rcRef[p]]
        /\ rcHeap[rcRef[p]][123] = "modified"
        /\ RcView[<<rcOp[p].path, 123>>] = Ref("review1")
        /\ RcView[<<rcOp[p].path, 456>>] = Ref("review2")

-----------------------------------------------------------------------------
(* Claims about RateLimiter.Wait *)

\* the positions of Wait's sleeping branch (lines 37-41)
RlSleepBranch == {"unlock", "sleepcall", "sleep", "relock"}

\* timestamps Wait calls have recorded so far (line 44)
RlStamps == rlRets + Cardinality({g \in Goroutines : rlPc[g] = "ret"})

\* C2 (SpecRLSeq): with one caller, the first Wait never enters the sleeping
\* branch; a later Wait is about to return only when minInterval has passed
\* since the timestamp the preceding call recorded; and the k-th call is about
\* to return only when (k-1)*minInterval has passed since the first was called.
C2_SequentialSpacing ==
    /\ rlRets = 0 => rlPc[1] \notin RlSleepBranch
    /\ rlPc[1] = "ret" /\ rlRets >= 1 => rlNow >= rlSeen[1] + MinInterval(rlN)
    /\ rlPc[1] = "ret" => rlNow - rlStart >= rlRets * MinInterval(rlN)

\* the third of three calls at two requests per second returns exactly two
\* intervals, one second, after the first was called
C2_Witness ==
    /\ rlCallers = {1}
    /\ rlN = 2
    /\ rlRets = 2
    /\ rlPc[1] = "ret"
    /\ rlNow - rlStart = 2 * MinInterval(rlN)

\* C3 (SpecRLConc): any two request issuances (the timestamps two Wait calls
\* record before they return) are at least minInterval apart.
C3_ConcurrentSpacing ==
    RlStamps >= 2 => rlLast - rlPrevStamp >= MinInterval(rlN)

\* C35 (SpecRLFair): two goroutines each call Wait twice on one RateLimiter.
\* No Unlock ever hits a mutex that is not held, every Wait call that was
\* entered returns, and from some point on every call has returned and the
\* mutex is free.
C35_WaitTerminates ==
    /\ [](~rlFatal)
    /\ \A g \in Goroutines : (rlPc[g] # "idle") ~> (rlPc[g] = "idle")
    /\ <>[](/\ ~rlMu
            /\ \A g \in rlCallers : rlPc[g] = "idle" /\ rlDone[g] = rlQuota)

\* goroutine 1 has slept in its second Wait and waits for the mutex, which
\* goroutine 2 holds at the end of its own second Wait
C35_Witness ==
    /\ rlCallers = {1, 2}
    /\ rlDone[1] = 1 /\ rlDone[2] = 1
    /\ rlPc[1] = "relock"
    /\ rlPc[2] = "ret"
    /\ rlMu
    /\ ~rlFatal

-----------------------------------------------------------------------------
(* Project (src/project.go) *)

\* the worktree names the model draws from: "a", "ab", "b" as bytes
Names == {<<97>>, <<97, 98>>, <<98>>}

\* p.worktreePath: "/w"
WorktreePath == <<47, 119>>

\* cmp.Compare on two strings: bytewise lexicographic order, -1 | 0 | +1
RECURSIVE CmpString(_, _)
CmpString(a, b) ==
    IF Len(a) = 0 /\ Len(b) = 0 THEN 0
    ELSE IF Len(a) = 0 THEN -1
    ELSE IF Len(b) = 0 THEN 1
    ELSE IF a[1] < b[1] THEN -1
    ELSE IF a[1] > b[1] THEN 1
    ELSE CmpString(Tail(a), Tail(b))

\* func compareWorktree(a, b *Worktree) int
compareWorktree(a, b) == CmpString(a.Name, b.Name)

\* filepath.Join(dir, name) for a name without separators: "/" is byte 47
FilepathJoin(dir, name) ==
    IF Len(name) = 0 THEN dir ELSE dir \o <<47>> \o name

\* the loop of slices.BinarySearchFunc over the 0-based range [i, j)
RECURSIVE BinarySearchLoop(_, _, _, _)
BinarySearchLoop(x, target, i, j) ==
    IF i < j
    THEN LET h == (i + j) \div 2
         IN IF compareWorktree(x[h + 1], target) < 0
            THEN BinarySearchLoop(x, target, h + 1, j)
            ELSE BinarySearchLoop(x, target, i, h)
    ELSE i

\* slices.BinarySearchFunc(x, target, compareWorktree): 0-based idx, found
BinarySearchFunc(x, target) ==
    LET n == Len(x)
        i == BinarySearchLoop(x, target, 0, n)
    IN [idx |-> i, found |-> i < n /\ compareWorktree(x[i + 1], target) = 0]

\* the inner loop of the insertion sort: element j sinks while it is smaller
\* than its left neighbour
RECURSIVE Sink(_, _)
Sink(x, j) ==
    IF j > 1 /\ compareWorktree(x[j], x[j - 1]) < 0
    THEN Sink([x EXCEPT ![j] = x[j - 1], ![j - 1] = x[j]], j - 1)
    ELSE x

RECURSIVE InsertionSort(_, _)
InsertionSort(x, i) ==
    IF i > Len(x) THEN x ELSE InsertionSort(Sink(x, i), i + 1)

\* a plausible slip: the list is left in insertion order
SortFuncNoOp(x) == x

\* slices.SortFunc(x, compareWorktree): an insertion sort for the short slices
\* (up to 12 elements) of the model
SortFunc(x) == InsertionSort(x, 2)

\* a plausible slip: the result of `openspec init` is not looked at
createWorktreeIgnoresInit(addErr, initErr) == addErr

\* func createWorktree(ctx, repo, tree) error: whether it returns an error, given
\* whether `git worktree add` and `openspec init` fail
createWorktree(addErr, initErr) == addErr \/ initErr

\* func (p *Project) AddWorktree(ctx, name) error.  mkdirErr and createErr tell
\* whether os.MkdirAll and createWorktree fail; list and show are the tool's
\* outputs in the new worktree.
AddWorktree(wts, name, mkdirErr, createErr, list, show) ==
    IF mkdirErr THEN [worktrees |-> wts, err |-> TRUE]
    ELSE IF createErr THEN [worktrees |-> wts, err |-> TRUE]
    ELSE LET r == refresh(NewWorktree(name, FilepathJoin(WorktreePath, name)), list, show)
             s == BinarySearchFunc(wts, r.w)
         IN IF r.err THEN [worktrees |-> wts, err |-> TRUE]
            ELSE IF s.found
            THEN [worktrees |-> [wts EXCEPT ![s.idx + 1] = r.w], err |-> FALSE]
            ELSE [worktrees |-> SortFunc(Append(wts, r.w)), err |-> FALSE]

\* a plausible slip: the entries after the removed one are dropped with it
DeleteWorktreeTruncates(wts, name, deleteErr) ==
    IF deleteErr THEN [worktrees |-> wts, err |-> TRUE]
    ELSE LET s == BinarySearchFunc(wts, NewWorktree(name, <<>>))
         IN IF s.found
            THEN [worktrees |-> SubSeq(wts, 1, s.idx), err |-> FALSE]
            ELSE [worktrees |-> wts, err |-> FALSE]

\* func (p *Project) DeleteWorktree(ctx, name) error.  deleteErr tells whether
\* deleteWorktree fails.
DeleteWorktree(wts, name, deleteErr) ==
    IF deleteErr THEN [worktrees |-> wts, err |-> TRUE]
    ELSE LET s == BinarySearchFunc(wts, NewWorktree(name, <<>>))
         IN IF s.found
            THEN [worktrees |-> SubSeq(wts, 1, s.idx) \o SubSeq(wts, s.idx + 2, Len(wts)),
                  err |-> FALSE]
            ELSE [worktrees |-> wts, err |-> FALSE]

\* the loop of Refresh over the directory entries; runs gives the tool's outputs
\* in each directory
RECURSIVE RefreshLoop(_, _, _)
RefreshLoop(acc, entries, runs) ==
    IF Len(entries) = 0 THEN [worktrees |-> SortFunc(acc), err |-> FALSE]
    ELSE LET entry == Head(entries)
         IN IF entry.isDir
            THEN LET r == refresh(NewWorktree(entry.name,
                                              FilepathJoin(WorktreePath, entry.name)),
                                  runs[entry.name].list, runs[entry.name].show)
                 IN IF r.err THEN [worktrees |-> acc, err |-> TRUE]
                    ELSE RefreshLoop(Append(acc, r.w), Tail(entries), runs)
            ELSE RefreshLoop(acc, Tail(entries), runs)

\* a plausible slip: a missing directory leaves the list as it was
RefreshKeepsOnNotExist(wts, dir, runs) ==
    IF dir.err = "notexist" THEN [worktrees |-> wts, err |-> FALSE]
    ELSE IF dir.err = "other" THEN [worktrees |-> wts, err |-> TRUE]
    ELSE RefreshLoop(<<>>, dir.entries, runs)

\* func (p *Project) Refresh(ctx) error.  dir is the result of os.ReadDir.
Refresh(wts, dir, runs) ==
    IF dir.err = "notexist" THEN [worktrees |-> <<>>, err |-> FALSE]
    ELSE IF dir.err = "other" THEN [worktrees |-> wts, err |-> TRUE]
    ELSE RefreshLoop(<<>>, dir.entries, runs)

\* os.ReadDir returns the entries sorted by filename
RECURSIVE SortedEntries(_)
SortedEntries(S) ==
    IF S = {} THEN <<>>
    ELSE LET m == CHOOSE e \in S : \A o \in S : CmpString(e.name, o.name) <= 0
         IN <<m>> \o SortedEntries(S \ {m})

\* results of os.ReadDir(p.worktreePath): the directory is missing, cannot be
\* read, or holds any of the names as a file or a directory
DirResults ==
    {[err |-> "notexist", entries |-> <<>>], [err |-> "other", entries |-> <<>>]}
        \cup {[err |-> "none",
               entries |-> SortedEntries({[name |-> n, isDir |-> kind[n] = "dir"] :
                                             n \in {m \in Names : kind[m] # "none"}})] :
                 kind \in [Names -> {"none", "file", "dir"}]}

ShowFails == [c \in ChangeNames |-> [err |-> TRUE, status |-> ZeroStatus]]

ShowPending ==
    [c \in ChangeNames |->
        [err |-> FALSE,
         status |-> [ChangeName |-> c, IsComplete |-> FALSE,
                     ApplyRequires |-> <<"tasks">>, Artifacts |-> <<>>]]]

\* the tool's outputs in one worktree: no openspec setup, no change, a change
\* whose status cannot be read, a pending change
ProjectRuns ==
    {[list |-> [err |-> TRUE, changes |-> <<>>], show |-> ShowFails],
     [list |-> [err |-> FALSE, changes |-> <<>>], show |-> ShowFails],
     [list |-> [err |-> FALSE, changes |-> <<"add-login">>], show |-> ShowFails],
     [list |-> [err |-> FALSE, changes |-> <<"add-login">>], show |-> ShowPending]}

\* &Project{...} before its first Refresh
InitProject ==
    /\ worktrees = <<>>
    /\ pjOp = [name |-> "none", arg |-> <<>>, err |-> FALSE, failed |-> "none"]
    /\ pjPrevLen = 0

PjAddWorktree ==
    /\ \E name \in Names, mkdirErr \in BOOLEAN, addErr \in BOOLEAN, initErr \in BOOLEAN,
          run \in ProjectRuns :
          LET r == AddWorktree(worktrees, name, mkdirErr, createWorktree(addErr, initErr),
                               run.list, run.show)
          IN /\ addErr => ~initErr
             /\ worktrees' = r.worktrees
             /\ pjOp' = [name |-> "AddWorktree", arg |-> name, err |-> r.err,
                         failed |-> IF mkdirErr THEN "MkdirAll"
                                    ELSE IF addErr THEN "git worktree add"
                                    ELSE IF initErr THEN "openspec init"
                                    ELSE IF r.err THEN "refresh" ELSE "none"]
    /\ pjPrevLen' = Len(worktrees)
    /\ UNCHANGED nonProjectVars

PjDeleteWorktree ==
    /\ \E name \in Names, deleteErr \in BOOLEAN :
          LET r == DeleteWorktree(worktrees, name, deleteErr)
          IN /\ worktrees' = r.worktrees
             /\ pjOp' = [name |-> "DeleteWorktree", arg |-> name, err |-> r.err,
                         failed |-> IF deleteErr THEN "git worktree remove" ELSE "none"]
    /\ pjPrevLen' = Len(worktrees)
    /\ UNCHANGED nonProjectVars

PjRefresh ==
    /\ \E dir \in DirResults, runs \in [Names -> ProjectRuns] :
          LET r == Refresh(worktrees, dir, runs)
          IN /\ worktrees' = r.worktrees
             /\ pjOp' = [name |-> "Refresh", arg |-> dir.err, err |-> r.err,
                         failed |-> IF dir.err = "other" THEN "ReadDir"
                                    ELSE IF r.err THEN "refresh" ELSE "none"]
    /\ pjPrevLen' = Len(worktrees)
    /\ UNCHANGED nonProjectVars

NextProject == PjAddWorktree \/ PjDeleteWorktree \/ PjRefresh

-----------------------------------------------------------------------------
(* Claims about Project, checked under SpecProject *)

\* C1 (SpecProject): after any sequence of AddWorktree, DeleteWorktree and
\* Refresh calls, failed ones included, the project's worktree list is strictly
\* ascending by Name, and no two of its entries have the same Name.
C1_StrictlyAscending ==
    /\ \A i \in 1..(Len(worktrees) - 1) :
          CmpString(worktrees[i].Name, worktrees[i + 1].Name) < 0
    /\ \A i, j \in 1..Len(worktrees) :
          i # j => worktrees[i].Name # worktrees[j].Name

\* AddWorktree("ab") succeeded on the list of "a" and "b": the new entry was
\* appended and sorted into the middle
C1_Witness ==
    /\ pjOp = [name |-> "AddWorktree", arg |-> <<97, 98>>, err |-> FALSE, failed |-> "none"]
    /\ pjPrevLen = 2
    /\ Len(worktrees) = 3
    /\ worktrees[2].Name = <<97, 98>>

\* the names of the listed worktrees, in list order
ListedNames == [i \in DOMAIN worktrees |-> worktrees[i].Name]

\* C19 (SpecProject): an AddWorktree call whose worktree-creation command fails
\* (git worktree add, or the openspec init after it) returns the error and
\* leaves the project's worktree list exactly as it was.
C19_AddAtomic ==
    [][ ( /\ pjOp'.name = "AddWorktree"
          /\ pjOp'.failed \in {"git worktree add", "openspec init"} )
        => /\ pjOp'.err
           /\ worktrees' = worktrees ]_vars

\* AddWorktree("ab") failed in openspec init on the list of "a" and "b", which
\* still holds these two
C19_Witness ==
    /\ pjOp = [name |-> "AddWorktree", arg |-> <<97, 98>>, err |-> TRUE,
               failed |-> "openspec init"]
    /\ pjPrevLen = 2
    /\ ListedNames = <<(<<97>>), (<<98>>)>>

\* C20 (SpecProject): DeleteWorktree(name) whose remove command succeeds takes
\* the entry named name out of the list and keeps every other entry, in the same
\* order (nothing changes when no entry has that name); when the command fails
\* the error is returned and the list is unchanged.
C20_DeleteFrame ==
    [][ pjOp'.name = "DeleteWorktree"
        => LET Others(x) == x.Name # pjOp'.arg
           IN /\ pjOp'.err <=> pjOp'.failed = "git worktree remove"
              /\ pjOp'.err => worktrees' = worktrees
              /\ ~pjOp'.err => worktrees' = SelectSeq(worktrees, Others) ]_vars

\* DeleteWorktree("a") succeeded on the list of "a", "ab" and "b": "ab" and "b"
\* stay, in this order
C20_Witness ==
    /\ pjOp = [name |-> "DeleteWorktree", arg |-> <<97>>, err |-> FALSE, failed |-> "none"]
    /\ pjPrevLen = 3
    /\ ListedNames = <<(<<97, 98>>), (<<98>>)>>

\* C21 (SpecProject): a Refresh call that returns an error (the directory
\* cannot be read, or the status of one worktree cannot be derived) leaves the
\* project's worktree list exactly as it was before the call.
C21_RefreshAllOrNothing ==
    [][ ( /\ pjOp'.name = "Refresh"
          /\ pjOp'.err )
        => worktrees' = worktrees ]_vars

\* C22 (SpecProject): a Refresh call that finds the worktree directory missing
\* returns no error and leaves the worktree list empty, whatever it held.
C22_MissingDirEmpties ==
    [][ ( /\ pjOp'.name = "Refresh"
          /\ pjOp'.arg = "notexist" )
        => /\ ~pjOp'.err
           /\ worktrees' = <<>> ]_vars

\* Refresh found the directory missing when the list held "a", "ab" and "b",
\* and the list is empty now
C22_Witness ==
    /\ pjOp = [name |-> "Refresh", arg |-> "notexist", err |-> FALSE, failed |-> "none"]
    /\ pjPrevLen = 3
    /\ worktrees = <<>>

-----------------------------------------------------------------------------
(* GitHubPRClient.Comments (src/unnamed/part_003) *)

CommitShas == {"aaa1111", "bbb2222"}

Stamps == 1..MaxStamp

\* time.Time.Before: strictly earlier
Before(t, u) == t < u

\* strings.ToLower on the values of the "side" field
ToLower(side) ==
    IF side = "LEFT" THEN "left" ELSE IF side = "RIGHT" THEN "right" ELSE side

\* GitHubPR as decoded from the API: the fields Comments reads
PullRequests ==
    {[Number |-> 7, Head |-> [CommitSha |-> sha, Repo |-> [PushedAt |-> t]]] :
        sha \in CommitShas, t \in Stamps}

\* the i-th GitHubComment of a response: ids follow the order of the response
ApiComment(i, sha, t) ==
    [ID |-> i, Body |-> "fix this", CreatedAt |-> t, Path |-> "main.go", Line |-> i,
     CommitSha |-> sha, Side |-> IF t = 1 THEN "LEFT" ELSE "RIGHT"]

\* the responses of the review-comments endpoint
ApiComments ==
    {[i \in 1..Len(k) |-> ApiComment(i, k[i][1], k[i][2])] :
        k \in SeqsUpTo(CommitShas \X Stamps, MaxComments)}

\* func (c GitHubComment) ToFormattedComment() FormattedComment
ToFormattedComment(c) ==
    [Type |-> "suggestion", Index |-> c.ID, Content |-> c.Body, File |-> c.Path,
     Line |-> c.Line, IsOldSide |-> ToLower(c.Side) = "left", CreatedAt |-> c.CreatedAt]

\* a plausible slip: a comment created at the push time is let through
KeepsCommentNotBefore(pr, c) ==
    pr.Head.CommitSha = c.CommitSha /\ ~Before(c.CreatedAt, pr.Head.Repo.PushedAt)

\* the condition of the loop in Comments (line 257)
KeepsComment(pr, c) ==
    pr.Head.CommitSha = c.CommitSha /\ Before(pr.Head.Repo.PushedAt, c.CreatedAt)

\* the loop of Comments over the fetched comments (lines 255-260)
RECURSIVE FilterComments(_, _)
FilterComments(pr, comments) ==
    IF Len(comments) = 0 THEN <<>>
    ELSE IF KeepsComment(pr, Head(comments))
    THEN <<ToFormattedComment(Head(comments))>> \o FilterComments(pr, Tail(comments))
    ELSE FilterComments(pr, Tail(comments))

\* func (c *GitHubPRClient) Comments(ctx, owner, repo, prNumber).  in holds what
\* fetchPRMetadata and fetchReviewComments give.
Comments(in) ==
    IF in.prErr THEN [review |-> Nil, err |-> TRUE]
    ELSE IF in.commentsErr THEN [review |-> Nil, err |-> TRUE]
    ELSE [review |-> Ref([CommitSha |-> in.pr.Head.CommitSha,
                          Comments |-> FilterComments(in.pr, in.comments)]),
          err |-> FALSE]

\* what the two requests of one call can give
ApiResults ==
    [pr : PullRequests, prErr : BOOLEAN, comments : ApiComments, commentsErr : BOOLEAN]

InitComments ==
    /\ ghIn = [pr |-> CHOOSE pr \in PullRequests : TRUE, prErr |-> TRUE,
               comments |-> <<>>, commentsErr |-> TRUE]
    /\ ghOut = [review |-> Nil, err |-> FALSE, done |-> FALSE]

\* one call of Comments; the client keeps no state between calls, so the model
\* follows a single call
GhComments ==
    /\ ~ghOut.done
    /\ \E in \in ApiResults :
          /\ in.prErr => in.comments = <<>> /\ in.commentsErr
          /\ in.commentsErr => in.comments = <<>>
          /\ ghIn' = in
          /\ ghOut' = [review |-> Comments(in).review, err |-> Comments(in).err,
                       done |-> TRUE]
    /\ UNCHANGED nonCommentsVars

NextComments == GhComments

-----------------------------------------------------------------------------
(* Claims about GitHubPRClient.Comments, checked under SpecComments *)

\* the positions, in the API response, of the comments the call returned
ReturnedIds == {Deref(ghOut.review).Comments[j].Index :
                   j \in DOMAIN Deref(ghOut.review).Comments}

\* C12 (SpecComments): Comments returns a review comment if and only if its
\* commit_id is the pull request's head sha and it was created strictly after
\* the head repository's last push; the returned comments keep the order of the
\* API response.
C12_CommentFilter ==
    ghOut.done /\ ~ghOut.err =>
        LET out == Deref(ghOut.review).Comments
        IN /\ \A i \in DOMAIN ghIn.comments :
                 i \in ReturnedIds <=>
                     /\ ghIn.comments[i].CommitSha = ghIn.pr.Head.CommitSha
                     /\ ghIn.comments[i].CreatedAt > ghIn.pr.Head.Repo.PushedAt
           /\ \A j \in DOMAIN out : out[j].Index \in DOMAIN ghIn.comments
           /\ \A j, k \in DOMAIN out : j < k => out[j].Index < out[k].Index
           /\ \A j \in DOMAIN out : out[j].Content = ghIn.comments[out[j].Index].Body

\* of three comments on the head commit, the one created at the push time is
\* dropped and the two later ones are returned in order
C12_Witness ==
    /\ ghOut.done /\ ~ghOut.err
    /\ Len(ghIn.comments) = 3
    /\ \A i \in 1..3 : ghIn.comments[i].CommitSha = ghIn.pr.Head.CommitSha
    /\ ghIn.comments[2].CreatedAt = ghIn.pr.Head.Repo.PushedAt
    /\ Len(Deref(ghOut.review).Comments) = 2
    /\ Deref(ghOut.review).Comments[1].Index = 1
    /\ Deref(ghOut.review).Comments[2].Index = 3

-----------------------------------------------------------------------------
(* GitHubPRClient.listAllPRs (src/unnamed/part_003) *)

\* const perPage = 100
perPage == 100

Digits == <<"0", "1", "2", "3", "4", "5", "6", "7", "8", "9">>

\* strconv.Itoa for a natural number
RECURSIVE Itoa(_)
Itoa(n) == IF n < 10 THEN Digits[n + 1] ELSE Itoa(n \div 10) \o Digits[(n % 10) + 1]

\* url.Values{}
EmptyQs == [k \in {} |-> ""]

\* qs.Set(key, value)
QsSet(qs, key, value) ==
    [k \in DOMAIN qs \cup {key} |-> IF k = key THEN value ELSE qs[k]]

\* for keyValues := range slices.Chunk(kv, 2) { qs.Set(keyValues[0], keyValues[1]) }
RECURSIVE QsSetPairs(_, _)
QsSetPairs(qs, kv) ==
    IF Len(kv) < 2 THEN qs
    ELSE QsSetPairs(QsSet(qs, kv[1], kv[2]), Tail(Tail(kv)))

\* the kv arguments listAllPRs is called with: those of FetchBranchPRs, none,
\* and a list that is not in pairs
KvInputs ==
    {<<"state", "open", "head", "owner:feature", "sort", "created", "direction", "desc">>,
     <<>>,
     <<"state", "open", "sort">>}

\* the i-th pull request of the k-th response
PageItem(k, i) == [Number |-> 1000 * k + i]

\* the k-th response of the endpoint when it holds n pull requests
PageOf(k, n) == [i \in 1..n |-> PageItem(k, i)]

\* a plausible slip: only an empty page ends the loop
IsShortPageOnlyEmpty(prs) == Len(prs) = 0

\* len(prs) < perPage (line 218)
IsShortPage(prs) == Len(prs) < perPage

InitPages ==
    /\ lpPc = "idle"
    /\ lpPage = 0
    /\ lpQs = EmptyQs
    /\ lpAll = <<>>
    /\ lpErr = FALSE
    /\ lpReqs = <<>>
    /\ lpSizes = <<>>

\* listAllPRs up to the loop (lines 193-203)
LpCall ==
    /\ lpPc = "idle"
    /\ \E kv \in KvInputs :
          IF Len(kv) % 2 # 0
          THEN /\ lpPc' = "done"
               /\ lpErr' = TRUE
               /\ UNCHANGED <<lpPage, lpQs>>
          ELSE /\ lpPc' = "loop"
               /\ lpPage' = 1
               /\ lpQs' = QsSet(QsSet(QsSetPairs(EmptyQs, kv), "per_page", Itoa(perPage)),
                                "page", Itoa(1))
               /\ UNCHANGED lpErr
    /\ lpAll' = <<>>
    /\ UNCHANGED <<lpReqs, lpSizes>>
    /\ UNCHANGED nonPagesVars

\* one iteration of the loop (lines 206-222): the request fails
LpRequestFails ==
    /\ lpPc = "loop"
    /\ Len(lpReqs) < MaxPages
    /\ lpReqs' = Append(lpReqs, lpQs)
    /\ lpPc' = "done"
    /\ lpErr' = TRUE
    /\ lpAll' = <<>>
    /\ UNCHANGED <<lpPage, lpQs, lpSizes>>
    /\ UNCHANGED nonPagesVars

\* one iteration of the loop (lines 206-222): the endpoint answers with n pull
\* requests, at most per_page of them
LpRequest ==
    /\ lpPc = "loop"
    /\ Len(lpReqs) < MaxPages
    /\ \E n \in 0..perPage :
          LET prs == PageOf(Len(lpReqs) + 1, n)
          IN /\ lpSizes' = Append(lpSizes, n)
             /\ IF Len(prs) = 0
                THEN /\ lpPc' = "done"
                     /\ UNCHANGED <<lpAll, lpPage, lpQs>>
                ELSE /\ lpAll' = lpAll \o prs
                     /\ IF IsShortPage(prs)
                        THEN /\ lpPc' = "done"
                             /\ UNCHANGED <<lpPage, lpQs>>
                        ELSE /\ lpPc' = "loop"
                             /\ lpPage' = lpPage + 1
                             /\ lpQs' = QsSet(lpQs, "page", Itoa(lpPage + 1))
    /\ lpReqs' = Append(lpReqs, lpQs)
    /\ UNCHANGED lpErr
    /\ UNCHANGED nonPagesVars

NextPages == LpCall \/ LpRequestFails \/ LpRequest

-----------------------------------------------------------------------------
(* Claims about listAllPRs, checked under SpecPages *)

\* the pages received, concatenated in page order
RECURSIVE ConcatPages(_)
ConcatPages(k) ==
    IF k = 0 THEN <<>> ELSE ConcatPages(k - 1) \o PageOf(k, lpSizes[k])

\* C13 (SpecPages): listAllPRs requests pages 1, 2, 3, ... in order with
\* per_page = 100; every page before the last received one is full, so no
\* request follows a page of fewer than 100 items; the call returns as soon as
\* such a page arrives, and what it returns is the concatenation of the
\* received pages in page order.
C13_Pagination ==
    /\ \A i \in DOMAIN lpReqs :
          /\ lpReqs[i]["page"] = IF i = 1 THEN "1" ELSE IF i = 2 THEN "2"
                                 ELSE IF i = 3 THEN "3" ELSE IF i = 4 THEN "4" ELSE "5"
          /\ lpReqs[i]["per_page"] = "100"
    /\ \A i \in 1..(Len(lpSizes) - 1) : lpSizes[i] = 100
    /\ lpPc = "loop" => \A i \in DOMAIN lpSizes : lpSizes[i] = 100
    /\ Len(lpSizes) > 0 /\ lpSizes[Len(lpSizes)] < 100 => lpPc = "done"
    /\ lpPc = "done" /\ ~lpErr =>
          /\ Len(lpReqs) = Len(lpSizes)
          /\ lpSizes[Len(lpSizes)] < 100
          /\ lpAll = ConcatPages(Len(lpSizes))

\* pages of 100, 100 and 37 pull requests gave 237 in exactly 3 requests
C13_Witness ==
    /\ lpPc = "done" /\ ~lpErr
    /\ lpSizes = <<100, 100, 37>>
    /\ Len(lpReqs) = 3
    /\ Len(lpAll) = 237
    /\ lpAll[201].Number = 3001

-----------------------------------------------------------------------------
(* GitHubPRClient.request and the methods that call it (src/unnamed/part_003) *)

Statuses == {200, 403, 404, 500}

\* values of resp.Header.Get("X-RateLimit-Reset"), as sequences of characters:
\* "" (the header is absent or empty), "17", "x"
ResetHeaders == {<<>>, <<"1", "7">>, <<"x">>}

\* the body the server sends: JSON of the expected shape, text that is not
\* JSON, JSON of another shape
Bodies == {"valid", "syntax", "mismatch"}

\* what http.NewRequestWithContext, c.client.Do and reading resp.Body give
Responses ==
    {[createErr |-> TRUE, doErr |-> FALSE, status |-> 0, reset |-> <<>>, body |-> "",
      readErr |-> FALSE],
     [createErr |-> FALSE, doErr |-> TRUE, status |-> 0, reset |-> <<>>, body |-> "",
      readErr |-> FALSE]}
        \cup [createErr : {FALSE}, doErr : {FALSE}, status : Statuses,
              reset : ResetHeaders, body : Bodies, readErr : BOOLEAN]

IsDigit(c) == \E d \in DOMAIN Digits : Digits[d] = c

DigitValue(c) == (CHOOSE d \in DOMAIN Digits : Digits[d] = c) - 1

RECURSIVE ParseDigits(_, _)
ParseDigits(str, acc) ==
    IF Len(str) = 0 THEN acc
    ELSE ParseDigits(Tail(str), 10 * acc + DigitValue(Head(str)))

\* timestamp, _ := strconv.ParseInt(resetTime, 10, 64): the value is 0 when the
\* text is not a number
ParseInt(str) ==
    IF Len(str) = 0 \/ \E i \in DOMAIN str : ~IsDigit(str[i]) THEN 0
    ELSE ParseDigits(str, 0)

\* io.ReadAll(resp.Body): the bytes read, all of them unless reading fails
ReadAll(resp) == [data |-> [text |-> resp.body, complete |-> ~resp.readErr],
                  err |-> resp.readErr]

\* json.Unmarshal(body, result): text that is not JSON leaves result alone;
\* JSON of another shape sets the fields that fit and returns the first misfit
Unmarshal(data) ==
    IF data.text = "valid" THEN [result |-> "decoded", err |-> FALSE]
    ELSE IF data.text = "mismatch" THEN [result |-> "partial", err |-> TRUE]
    ELSE [result |-> "untouched", err |-> TRUE]

NoData == [text |-> "", complete |-> TRUE]

\* fmt.Errorf(format, ...): the format and the values the message is built from
Errorf(format, status, resetAt, data) ==
    Ref([format |-> format, status |-> status, resetAt |-> resetAt, body |-> data])

\* a plausible slip: the rate-limit header of a 403 is not looked at
requestIgnoresReset(resp) ==
    IF resp.createErr
    THEN [err |-> Errorf("failed to create request: %w", 0, 0, NoData),
          result |-> "untouched"]
    ELSE IF resp.doErr
    THEN [err |-> Errorf("network error: %w. Please check your internet connection",
                         0, 0, NoData),
          result |-> "untouched"]
    ELSE IF resp.status = 404
    THEN [err |-> Errorf("%s %s returns 404", 0, 0, NoData), result |-> "untouched"]
    ELSE IF resp.status = 403
    THEN [err |-> Errorf("access forbidden. This may be a private repository. Set GITHUB_TOKEN environment variable or use --token flag",
                         0, 0, NoData),
          result |-> "untouched"]
    ELSE IF resp.status # 200
    THEN [err |-> Errorf("GitHub API error (status %d): %s", resp.status, 0,
                         ReadAll(resp).data),
          result |-> "untouched"]
    ELSE IF ReadAll(resp).err
    THEN [err |-> Errorf("failed to read response: %w", 0, 0, NoData),
          result |-> "untouched"]
    ELSE LET u == Unmarshal(ReadAll(resp).data)
         IN IF u.err
            THEN [err |-> Errorf("failed to parse GitHub response: %w", 0, 0, NoData),
                  result |-> u.result]
            ELSE [err |-> Nil, result |-> u.result]

\* func (c *GitHubPRClient) request(ctx, url, result) error, from the creation
\* of the request on (lines 123-167)
request(resp) ==
    IF resp.createErr
    THEN [err |-> Errorf("failed to create request: %w", 0, 0, NoData),
          result |-> "untouched"]
    ELSE IF resp.doErr
    THEN [err |-> Errorf("network error: %w. Please check your internet connection",
                         0, 0, NoData),
          result |-> "untouched"]
    ELSE IF resp.status = 404
    THEN [err |-> Errorf("%s %s returns 404", 0, 0, NoData), result |-> "untouched"]
    ELSE IF resp.status = 403
    THEN IF resp.reset # <<>>
         THEN [err |-> Errorf("GitHub API rate limit exceeded. Reset at: %s. Consider using a GitHub token (--token or GITHUB_TOKEN env var)",
                              0, ParseInt(resp.reset), NoData),
               result |-> "untouched"]
         ELSE [err |-> Errorf("access forbidden. This may be a private repository. Set GITHUB_TOKEN environment variable or use --token flag",
                              0, 0, NoData),
               result |-> "untouched"]
    ELSE IF resp.status # 200
    THEN [err |-> Errorf("GitHub API error (status %d): %s", resp.status, 0,
                         ReadAll(resp).data),
          result |-> "untouched"]
    ELSE IF ReadAll(resp).err
    THEN [err |-> Errorf("failed to read response: %w", 0, 0, NoData),
          result |-> "untouched"]
    ELSE LET u == Unmarshal(ReadAll(resp).data)
         IN IF u.err
            THEN [err |-> Errorf("failed to parse GitHub response: %w", 0, 0, NoData),
                  result |-> u.result]
            ELSE [err |-> Nil, result |-> u.result]

\* the methods that call request: once each, listAllPRs once per page
ClientMethods ==
    {"fetchPRMetadata", "fetchReviewComments", "listAllPRs", "fetchLatestOpenPR"}

\* the calls made on the client: one of three methods on its own, or Review
\* with a pull request number (0: the latest open one).  A call is the method
\* it starts with and the methods it goes on to when that one succeeds: Review
\* calls fetchLatestOpenPR when prNumber <= 0 (lines 269-275) and then
\* Comments, which calls fetchPRMetadata and fetchReviewComments (lines 246-253)
Review(prNumber) ==
    IF prNumber <= 0
    THEN [name |-> "Review", first |-> "fetchLatestOpenPR",
          plan |-> <<"fetchPRMetadata", "fetchReviewComments">>]
    ELSE [name |-> "Review", first |-> "fetchPRMetadata",
          plan |-> <<"fetchReviewComments">>]

ClientCalls ==
    {[name |-> m, first |-> m, plan |-> <<>>] :
         m \in {"fetchPRMetadata", "fetchReviewComments", "listAllPRs"}}
        \cup {Review(0), Review(7)}

\* the methods that list pull requests, and the sizes a page of theirs can have
PageSizes(method) ==
    IF method = "listAllPRs" THEN {0, 1, perPage}
    ELSE IF method = "fetchLatestOpenPR" THEN {0, 1}
    ELSE {0}

\* what the method returns once its request has returned r with n pull
\* requests: fetchLatestOpenPR fails when the page is empty (lines 238-240)
MethodErr(method, r, n) ==
    IF r.err # Nil THEN r.err
    ELSE IF method = "fetchLatestOpenPR" /\ n = 0
    THEN Errorf("no open pull requests found for %s/%s", 0, 0, NoData)
    ELSE Nil

\* a plausible slip: the request is built without waiting for the rate limiter
RequestFirstStepSkipsWait == "send"

\* where request starts: c.rateLimiter.Wait() (line 121)
RequestFirstStep == "wait"

NoResponse ==
    [createErr |-> FALSE, doErr |-> FALSE, status |-> 0, reset |-> <<>>, body |-> "",
     readErr |-> FALSE]

\* NewGitHubPRClient(token), no call made yet
InitClient ==
    /\ clPc = "idle"
    /\ clMethod = ""
    /\ clResp = NoResponse
    /\ clOut = [err |-> Nil, result |-> "untouched", done |-> FALSE]
    /\ clWaits = 0
    /\ clSent = 0
    /\ clListWaits = 0
    /\ clPage = 0
    /\ clCall = [name |-> "", plan |-> <<>>, err |-> Nil, done |-> FALSE]

\* a method is called and calls request (listAllPRs: for its first page)
ClCall ==
    /\ clPc = "idle"
    /\ \E call \in ClientCalls :
          /\ clMethod' = call.first
          /\ clPage' = IF call.first = "listAllPRs" THEN 1 ELSE 0
          /\ clCall' = [name |-> call.name, plan |-> call.plan, err |-> Nil,
                        done |-> FALSE]
    /\ clPc' = RequestFirstStep
    /\ clWaits' = 0
    /\ clSent' = 0
    /\ clListWaits' = 0
    /\ clResp' = NoResponse
    /\ clOut' = [err |-> Nil, result |-> "untouched", done |-> FALSE]
    /\ UNCHANGED nonClientVars

\* c.rateLimiter.Wait() returns
ClWait ==
    /\ clPc = "wait"
    /\ clPage <= MaxPages
    /\ clWaits' = clWaits + 1
    /\ clListWaits' = IF clMethod = "listAllPRs" THEN clListWaits + 1 ELSE clListWaits
    /\ clPc' = "send"
    /\ UNCHANGED <<clMethod, clResp, clOut, clSent, clPage, clCall>>
    /\ UNCHANGED nonClientVars

\* the request is created and handed to c.client.Do (lines 123-136); when it
\* cannot be created, request returns and with it the method
ClSend ==
    /\ clPc = "send"
    /\ clPage <= MaxPages
    /\ \E resp \in Responses :
          /\ clResp' = resp
          /\ IF resp.createErr
             THEN /\ clOut' = [err |-> request(resp).err, result |-> request(resp).result,
                               done |-> TRUE]
                  /\ clCall' = [clCall EXCEPT !.plan = <<>>, !.err = request(resp).err,
                                               !.done = TRUE]
                  /\ clPc' = "idle"
                  /\ UNCHANGED clSent
             ELSE /\ clSent' = clSent + 1
                  /\ clPc' = "resp"
                  /\ UNCHANGED <<clOut, clCall>>
    /\ UNCHANGED <<clMethod, clWaits, clListWaits, clPage>>
    /\ UNCHANGED nonClientVars

\* the outcome of Do is classified and request returns (lines 137-167); n is the
\* number of pull requests a decoded page holds.  listAllPRs asks for the next
\* page after a full one (lines 205-224); a method that succeeded inside Review
\* is followed by the next one; otherwise the call returns.
ClClassify ==
    /\ clPc = "resp"
    /\ \E n \in PageSizes(clMethod) :
          LET r == request(clResp)
              more == /\ clMethod = "listAllPRs"
                      /\ r.err = Nil
                      /\ n # 0
                      /\ ~IsShortPage(PageOf(clPage, n))
              err == MethodErr(clMethod, r, n)
          IN /\ clOut' = [err |-> r.err, result |-> r.result, done |-> TRUE]
             /\ r.err # Nil => n = 0
             /\ IF more
                THEN /\ clPage' = clPage + 1
                     /\ clPc' = RequestFirstStep
                     /\ clWaits' = 0
                     /\ clSent' = 0
                     /\ UNCHANGED <<clMethod, clCall>>
                ELSE IF err = Nil /\ clCall.plan # <<>>
                THEN /\ clMethod' = Head(clCall.plan)
                     /\ clCall' = [clCall EXCEPT !.plan = Tail(@)]
                     /\ clPc' = RequestFirstStep
                     /\ clWaits' = 0
                     /\ clSent' = 0
                     /\ UNCHANGED clPage
                ELSE /\ clPc' = "idle"
                     /\ clCall' = [clCall EXCEPT !.plan = <<>>, !.err = err, !.done = TRUE]
                     /\ UNCHANGED <<clMethod, clPage, clWaits, clSent>>
    /\ UNCHANGED <<clResp, clListWaits>>
    /\ UNCHANGED nonClientVars

NextClient == ClCall \/ ClWait \/ ClSend \/ ClClassify

-----------------------------------------------------------------------------
(* Claims about GitHubPRClient.request, checked under SpecClient *)

\* the format of the error the last request returned ("": it returned nil)
ErrFormat == IF clOut.err = Nil THEN "" ELSE Deref(clOut.err).format

\* a request has returned and clResp is the outcome it returned for
Returned == clOut.done /\ clPc # "resp"

\* a request has returned and clResp is the outcome of its GET
Classified == Returned /\ ~clResp.createErr

\* C26 as amended (SpecClient): request maps every outcome to exactly one
\* class: a request that cannot be built to the create error, with no GET; a
\* transport failure to the network error; 404 to the not-found error; 403
\* with a reset header to the rate-limit error, which carries the header's
\* time (0 when it is not a number); 403 without it to the forbidden error;
\* another status than 200 to the upstream error, which carries the status and
\* the body as far as it could be read; 200 with a body that cannot be read to
\* the read error; 200 with a body that does not decode to the decode error;
\* and it returns nil exactly for 200 with a body that is read and decodes, the
\* only case in which result holds the decoded value.  result is untouched in
\* every other class but the decode error, where some of its fields may be set.
C26_ResponseClasses ==
    Returned
    => LET r == clResp
           answered == ~r.createErr /\ ~r.doErr
           e == clOut.err
       IN /\ r.createErr
             => ErrFormat = "failed to create request: %w" /\ clSent = 0
          /\ r.doErr
             => ErrFormat = "network error: %w. Please check your internet connection"
          /\ ( answered /\ r.status = 404 ) => ErrFormat = "%s %s returns 404"
          /\ ( answered /\ r.status = 403 /\ r.reset # <<>> )
             => /\ ErrFormat = "GitHub API rate limit exceeded. Reset at: %s. Consider using a GitHub token (--token or GITHUB_TOKEN env var)"
                /\ r.reset = <<"1", "7">> => Deref(e).resetAt = 17
                /\ r.reset = <<"x">> => Deref(e).resetAt = 0
          /\ ( answered /\ r.status = 403 /\ r.reset = <<>> )
             => ErrFormat = "access forbidden. This may be a private repository. Set GITHUB_TOKEN environment variable or use --token flag"
          /\ ( answered /\ r.status \notin {200, 403, 404} )
             => /\ ErrFormat = "GitHub API error (status %d): %s"
                /\ Deref(e).status = r.status
                /\ Deref(e).body = [text |-> r.body, complete |-> ~r.readErr]
          /\ ( answered /\ r.status = 200 /\ r.readErr )
             => ErrFormat = "failed to read response: %w"
          /\ ( answered /\ r.status = 200 /\ ~r.readErr /\ r.body # "valid" )
             => ErrFormat = "failed to parse GitHub response: %w"
          /\ e = Nil <=> ( answered /\ r.status = 200 /\ ~r.readErr /\ r.body = "valid" )
          /\ clOut.result = "decoded" <=> e = Nil
          /\ clOut.result = "partial"
             <=> ( answered /\ r.status = 200 /\ ~r.readErr /\ r.body = "mismatch" )
          /\ clOut.result \in {"decoded", "partial", "untouched"}

\* a 200 whose body is JSON of another shape came back as the decode error,
\* with fields of result already set
C26_Witness ==
    /\ Classified
    /\ ~clResp.doErr
    /\ clResp.status = 200
    /\ ~clResp.readErr
    /\ clResp.body = "mismatch"
    /\ ErrFormat = "failed to parse GitHub response: %w"
    /\ clOut.result = "partial"

\* C26 as stated (SpecClient): the classification of the response is total
\* over the claim's classes: a transport failure gives the network error; 404
\* the not-found error; 403 with a reset header the rate-limit error, which
\* carries the header's time; 403 without it the forbidden error; another
\* status than 200 the upstream error, which carries the status and the body;
\* 200 with a body that does not decode the decode error; 200 with a body that
\* decodes returns nil, and result is filled only then.
C26_ResponseClassesAsStated ==
    Classified
    => LET r == clResp
           answered == ~r.doErr
           e == clOut.err
       IN /\ r.doErr
             => ErrFormat = "network error: %w. Please check your internet connection"
          /\ ( answered /\ r.status = 404 ) => ErrFormat = "%s %s returns 404"
          /\ ( answered /\ r.status = 403 /\ r.reset # <<>> )
             => /\ ErrFormat = "GitHub API rate limit exceeded. Reset at: %s. Consider using a GitHub token (--token or GITHUB_TOKEN env var)"
                /\ r.reset = <<"1", "7">> => Deref(e).resetAt = 17
          /\ ( answered /\ r.status = 403 /\ r.reset = <<>> )
             => ErrFormat = "access forbidden. This may be a private repository. Set GITHUB_TOKEN environment variable or use --token flag"
          /\ ( answered /\ r.status \notin {200, 403, 404} )
             => /\ ErrFormat = "GitHub API error (status %d): %s"
                /\ Deref(e).status = r.status
                /\ Deref(e).body.text = r.body
          /\ ( answered /\ r.status = 200 /\ r.body # "valid" )
             => ErrFormat = "failed to parse GitHub response: %w"
          /\ e = Nil <=> ( answered /\ r.status = 200 /\ r.body = "valid" )
          /\ clOut.result # "untouched" => e = Nil

\* C27 (SpecClient): a GET is issued only after the Wait of its request call
\* has returned, and exactly one Wait has returned in that call by then; a
\* listing that has asked for p pages has completed p Waits.
C27_WaitBeforeRequest ==
    /\ clSent <= clWaits
    /\ clSent > 0 => clWaits = 1 /\ clSent = 1
    /\ clPc = "resp" => clSent = 1
    /\ ( clMethod = "listAllPRs" /\ clPc \in {"send", "resp", "idle"} )
       => clListWaits = clPage

\* a listing got two full pages and is asking for the third: three Waits
C27_Witness ==
    /\ clMethod = "listAllPRs"
    /\ clPc = "resp"
    /\ clPage = 3
    /\ clListWaits = 3
    /\ clSent = 1

-----------------------------------------------------------------------------
(* The control loop (src/server.go) and Worktree.review (src/project.go) *)

\* a Status of the change "add-login"
LoopStatus(complete, requires) ==
    Ref([ChangeName |-> "add-login", IsComplete |-> complete, ApplyRequires |-> requires,
         Artifacts |-> <<>>])

\* the Status values loading can leave in a worktree
LoopStatuses ==
    {Nil, LoopStatus(TRUE, <<"tasks">>), LoopStatus(FALSE, <<>>),
     LoopStatus(FALSE, <<"tasks">>), LoopStatus(FALSE, <<"specs">>),
     LoopStatus(FALSE, <<"specs", "tasks">>)}

\* a loaded worktree
LoopWorktree(name, status) ==
    [NewWorktree(name, FilepathJoin(WorktreePath, name)) EXCEPT !.Status = status]

\* a loaded project
LoopProject(repo, wts) == [repo |-> repo, repoPath |-> <<47>> \o repo, worktrees |-> wts]

\* the workspaces the loop is run on: none, one project with one worktree, two
\* projects with two and one worktrees
LoadedProjects ==
    {<<>>}
    \cup {<<LoopProject(<<114>>, <<LoopWorktree(<<97>>, s1)>>)>> : s1 \in LoopStatuses}
    \cup {<<LoopProject(<<114>>, <<LoopWorktree(<<97>>, s1), LoopWorktree(<<98>>, s2)>>),
            LoopProject(<<115>>, <<LoopWorktree(<<97>>, s3)>>)>> :
              s1 \in LoopStatuses, s2 \in LoopStatuses, s3 \in LoopStatuses}

\* LoadWorkspace(ctx, workspace): the projects, or an error and no projects
LoadWorkspaceResults ==
    {[projects |-> <<>>, err |-> TRUE]}
        \cup {[projects |-> ps, err |-> FALSE] : ps \in LoadedProjects}

\* the worktrees of all projects in the order the nested loops visit them
RECURSIVE VisitOrder(_, _, _)
VisitOrder(projects, i, j) ==
    IF i > Len(projects) THEN <<>>
    ELSE IF j > Len(projects[i].worktrees) THEN VisitOrder(projects, i + 1, 1)
    ELSE <<[p |-> i, w |-> j]>> \o VisitOrder(projects, i, j + 1)

Call(name, at) == [call |-> name, p |-> at.p, w |-> at.w]

\* what the calls of one Worktree.review give: prs is "err", "none" or "some"
ReviewEnvs ==
    {[prs |-> "err", commentsErr |-> FALSE, promptErr |-> FALSE, amendErr |-> FALSE,
      pushErr |-> FALSE],
     [prs |-> "none", commentsErr |-> FALSE, promptErr |-> FALSE, amendErr |-> FALSE,
      pushErr |-> FALSE],
     [prs |-> "some", commentsErr |-> FALSE, promptErr |-> FALSE, amendErr |-> FALSE,
      pushErr |-> FALSE],
     [prs |-> "some", commentsErr |-> TRUE, promptErr |-> FALSE, amendErr |-> FALSE,
      pushErr |-> FALSE],
     [prs |-> "some", commentsErr |-> FALSE, promptErr |-> TRUE, amendErr |-> FALSE,
      pushErr |-> FALSE],
     [prs |-> "some", commentsErr |-> FALSE, promptErr |-> FALSE, amendErr |-> FALSE,
      pushErr |-> TRUE]}

\* func (w *Worktree) review(ctx, client) (bool, error).  The error of
\* client.Comments is not looked at: after a failed fetch comments is nil and
\* comments.String() dereferences it.
review(at, env) ==
    IF env.prs = "err"
    THEN [hasReview |-> FALSE, err |-> TRUE, panic |-> FALSE,
          calls |-> <<Call("FetchBranchPRs", at)>>]
    ELSE IF env.prs = "none"
    THEN [hasReview |-> TRUE, err |-> FALSE, panic |-> FALSE,
          calls |-> <<Call("FetchBranchPRs", at)>>]
    ELSE IF env.commentsErr
    THEN [hasReview |-> FALSE, err |-> FALSE, panic |-> TRUE,
          calls |-> <<Call("FetchBranchPRs", at), Call("Comments", at)>>]
    ELSE IF env.promptErr
    THEN [hasReview |-> FALSE, err |-> TRUE, panic |-> FALSE,
          calls |-> <<Call("FetchBranchPRs", at), Call("Comments", at),
                      Call("ocPrompt", at)>>]
    ELSE IF env.amendErr
    THEN [hasReview |-> FALSE, err |-> TRUE, panic |-> FALSE,
          calls |-> <<Call("FetchBranchPRs", at), Call("Comments", at),
                      Call("ocPrompt", at), Call("amendCommit", at)>>]
    ELSE [hasReview |-> FALSE, err |-> env.pushErr, panic |-> FALSE,
          calls |-> <<Call("FetchBranchPRs", at), Call("Comments", at),
                      Call("ocPrompt", at), Call("amendCommit", at),
                      Call("push", at)>>]

\* slog.Info("got review", "repo", p.Title(), "branch", w.Name) (line 58)
GotReview(at) == [msg |-> "got review", p |-> at.p, w |-> at.w]

\* the loops of fetchReviews over the worktrees still to visit; logs are the
\* lines it writes with slog.Info, in order
RECURSIVE fetchReviewsLoop(_, _, _)
fetchReviewsLoop(todo, envs, calls) ==
    IF Len(todo) = 0 THEN [calls |-> calls, err |-> FALSE, panic |-> FALSE, logs |-> <<>>]
    ELSE LET r == review(Head(todo), envs[Head(todo)])
         IN IF r.panic
            THEN [calls |-> calls \o r.calls, err |-> FALSE, panic |-> TRUE, logs |-> <<>>]
            ELSE IF r.err
            THEN [calls |-> calls \o r.calls, err |-> TRUE, panic |-> FALSE, logs |-> <<>>]
            ELSE LET rest == fetchReviewsLoop(Tail(todo), envs, calls \o r.calls)
                 IN IF r.hasReview
                    THEN [rest EXCEPT !.logs = <<GotReview(Head(todo))>> \o @]
                    ELSE rest

\* func fetchReviews(ctx, client, projects) error
fetchReviews(projects, envs) == fetchReviewsLoop(VisitOrder(projects, 1, 1), envs, <<>>)

\* what the agent and the push of one worktree give in the apply step
ApplyEnvs ==
    {[agentErr |-> FALSE, pushErr |-> FALSE], [agentErr |-> TRUE, pushErr |-> FALSE],
     [agentErr |-> FALSE, pushErr |-> TRUE]}

\* slices.Contains(s, v)
Contains(seq, v) == \E i \in DOMAIN seq : seq[i] = v

\* the second case of the switch in applyChanges (line 70)
NeedsApply(status) == Len(status.ApplyRequires) = 1 /\ Contains(status.ApplyRequires, "tasks")

\* the loops of applyChanges over the worktrees still to visit; w.Status is
\* dereferenced without a nil check (line 69)
RECURSIVE applyChangesLoop(_, _, _, _)
applyChangesLoop(projects, todo, envs, calls) ==
    IF Len(todo) = 0 THEN [calls |-> calls, err |-> FALSE, panic |-> FALSE]
    ELSE LET at == Head(todo)
             wt == projects[at.p].worktrees[at.w]
         IN IF wt.Status = Nil THEN [calls |-> calls, err |-> FALSE, panic |-> TRUE]
            ELSE IF Deref(wt.Status).IsComplete
            THEN applyChangesLoop(projects, Tail(todo), envs, calls)
            ELSE IF NeedsApply(Deref(wt.Status))
            THEN IF envs[at].agentErr
                 THEN [calls |-> Append(calls, Call("opsx-apply", at)), err |-> TRUE,
                       panic |-> FALSE]
                 ELSE IF envs[at].pushErr
                 THEN [calls |-> calls \o <<Call("opsx-apply", at), Call("push", at)>>,
                       err |-> TRUE, panic |-> FALSE]
                 ELSE applyChangesLoop(projects, Tail(todo), envs,
                                       calls \o <<Call("opsx-apply", at), Call("push", at)>>)
            ELSE applyChangesLoop(projects, Tail(todo), envs, calls)

\* func applyChanges(ctx, projects) error
applyChanges(projects, envs) ==
    applyChangesLoop(projects, VisitOrder(projects, 1, 1), envs, <<>>)

\* the loop of pullMain from project i on; pullErr tells which pulls fail
RECURSIVE pullMainLoop(_, _, _, _)
pullMainLoop(projects, i, pullErr, calls) ==
    IF i > Len(projects) THEN [calls |-> calls, err |-> FALSE]
    ELSE IF pullErr[i]
    THEN [calls |-> Append(calls, Call("pull", [p |-> i, w |-> 0])), err |-> TRUE]
    ELSE pullMainLoop(projects, i + 1, pullErr,
                      Append(calls, Call("pull", [p |-> i, w |-> 0])))

\* func pullMain(ctx, projects) error
pullMain(projects, pullErr) == pullMainLoop(projects, 1, pullErr, <<>>)

\* the worktrees of the loaded projects
Visits(projects) ==
    {[p |-> i, w |-> j] : i \in DOMAIN projects, j \in 1..2} \cap
    {at \in [p : DOMAIN projects, w : 1..2] : at.w <= Len(projects[at.p].worktrees)}

\* a plausible slip: every tick starts its own run of the phases (go func)
CanStartTickAnytime(pc, pending) == pc # "crashed" /\ pending > 0

\* for range time.Tick(s.interval): the loop body starts when the previous
\* iteration has ended and a tick is in the channel
CanStartTick(pc, pending) == pc = "idle" /\ pending > 0

\* no call made yet
NoCalls == [pull |-> <<>>, review |-> <<>>, apply |-> <<>>]

InitLoop ==
    /\ svPc = "idle"
    /\ svPending = 0
    /\ svCtx = "none"
    /\ svProjects = <<>>
    /\ svLog = <<>>
    /\ svCalls = NoCalls
    /\ svErrs = <<>>
    /\ svOverlap = FALSE

\* the ticker sends a tick; the channel holds one tick and further ones are dropped
SvTimer ==
    /\ svPc # "crashed"
    /\ svPending = 0
    /\ svPending' = 1
    /\ UNCHANGED <<svPc, svCtx, svProjects, svLog, svCalls, svErrs, svOverlap>>
    /\ UNCHANGED nonLoopVars

\* lines 140-145: a tick is received, tCtx is made, the workspace is loaded
SvLoad ==
    /\ CanStartTick(svPc, svPending)
    /\ svPending' = 0
    /\ svCtx' = "live"
    /\ svOverlap' = (svOverlap \/ svCtx = "live")
    /\ \E r \in LoadWorkspaceResults :
          /\ svProjects' = r.projects
          /\ svErrs' = IF r.err THEN <<"load">> ELSE <<>>
    /\ svLog' = <<"load">>
    /\ svCalls' = NoCalls
    /\ svPc' = "loaded"
    /\ UNCHANGED nonLoopVars

\* lines 146-148
SvPull ==
    /\ svPc = "loaded"
    /\ \E pullErr \in [DOMAIN svProjects -> BOOLEAN] :
          LET r == pullMain(svProjects, pullErr)
          IN /\ svCalls' = [svCalls EXCEPT !.pull = r.calls]
             /\ svErrs' = IF r.err THEN Append(svErrs, "pull") ELSE svErrs
    /\ svLog' = Append(svLog, "pull")
    /\ svPc' = "pulled"
    /\ UNCHANGED <<svPending, svCtx, svProjects, svOverlap>>
    /\ UNCHANGED nonLoopVars

\* lines 149-151; a panic in the goroutine ends the process
SvReview ==
    /\ svPc = "pulled"
    /\ \E envs \in [Visits(svProjects) -> ReviewEnvs] :
          LET r == fetchReviews(svProjects, envs)
          IN /\ svCalls' = [svCalls EXCEPT !.review = r.calls]
             /\ svErrs' = IF r.err THEN Append(svErrs, "review") ELSE svErrs
             /\ svPc' = IF r.panic THEN "crashed" ELSE "reviewed"
    /\ svLog' = Append(svLog, "review")
    /\ UNCHANGED <<svPending, svCtx, svProjects, svOverlap>>
    /\ UNCHANGED nonLoopVars

\* lines 152-154; a panic in the goroutine ends the process
SvApply ==
    /\ svPc = "reviewed"
    /\ \E envs \in [Visits(svProjects) -> ApplyEnvs] :
          LET r == applyChanges(svProjects, envs)
          IN /\ svCalls' = [svCalls EXCEPT !.apply = r.calls]
             /\ svErrs' = IF r.err THEN Append(svErrs, "apply") ELSE svErrs
             /\ svPc' = IF r.panic THEN "crashed" ELSE "applied"
    /\ svLog' = Append(svLog, "apply")
    /\ UNCHANGED <<svPending, svCtx, svProjects, svOverlap>>
    /\ UNCHANGED nonLoopVars

\* line 155: cancel(); the locals of the iteration go out of scope
SvCancel ==
    /\ svPc = "applied"
    /\ svCtx' = "cancelled"
    /\ svPc' = "idle"
    /\ svProjects' = <<>>
    /\ svLog' = <<>>
    /\ svCalls' = NoCalls
    /\ svErrs' = <<>>
    /\ UNCHANGED <<svPending, svOverlap>>
    /\ UNCHANGED nonLoopVars

NextLoop == SvTimer \/ SvLoad \/ SvPull \/ SvReview \/ SvApply \/ SvCancel

-----------------------------------------------------------------------------
(* Claims about the control loop, checked under SpecLoop *)

\* the Status of the worktree a call was made for
StatusAt(at) == svProjects[at.p].worktrees[at.w].Status

\* the worktree's Status is present, not complete, and requires exactly "tasks"
OnlyTasksLeft(at) ==
    /\ StatusAt(at) # Nil
    /\ ~Deref(StatusAt(at)).IsComplete
    /\ Deref(StatusAt(at)).ApplyRequires = <<"tasks">>

Made(calls, name, at) == \E k \in DOMAIN calls : calls[k] = Call(name, at)

Logged(phase) == \E k \in DOMAIN svErrs : svErrs[k] = phase

\* C14 (SpecLoop): when the apply step has returned, the agent's
\* "opsx-apply" and the push were invoked for a worktree if and only if its
\* Status is not complete and its ApplyRequires is exactly ["tasks"].
C14_ApplyIff ==
    svPc = "applied" =>
        \A at \in Visits(svProjects) :
            OnlyTasksLeft(at) <=> /\ Made(svCalls.apply, "opsx-apply", at)
                                  /\ Made(svCalls.apply, "push", at)

\* C15 (SpecLoop): a tick runs load, pull, review fetch, apply in this order,
\* each after the previous one returned; a tick starts only when the previous
\* tick's apply has returned and its context has been cancelled.
C15_PhasesInOrder ==
    /\ ~svOverlap
    /\ svPc = "idle" => svLog = <<>> /\ svCtx # "live"
    /\ svPc = "loaded" => svLog = <<"load">> /\ svCtx = "live"
    /\ svPc = "pulled" => svLog = <<"load", "pull">> /\ svCtx = "live"
    /\ svPc = "reviewed" => svLog = <<"load", "pull", "review">> /\ svCtx = "live"
    /\ svPc = "applied" => svLog = <<"load", "pull", "review", "apply">> /\ svCtx = "live"

\* the ticker has fired while a tick is between review fetch and apply: the new
\* tick waits
C15_Witness ==
    /\ svPc = "reviewed"
    /\ svPending = 1
    /\ svLog = <<"load", "pull", "review">>
    /\ Len(svCalls.review) > 0

\* C16 (SpecLoop): when the pull of project P failed in a tick, the tick made no
\* review or apply call for a worktree of P, and every other project was pulled.
C16_PullIsolation ==
    svPc = "applied" /\ Logged("pull") =>
        LET failed == svCalls.pull[Len(svCalls.pull)].p
        IN /\ \A k \in DOMAIN svCalls.review : svCalls.review[k].p # failed
           /\ \A k \in DOMAIN svCalls.apply : svCalls.apply[k].p # failed
           /\ \A i \in DOMAIN svProjects :
                 Made(svCalls.pull, "pull", [p |-> i, w |-> 0])

\* C17 (SpecLoop): when Worktree.review returned an error in a tick, no later
\* worktree was reviewed and the apply step made no call in that tick.
C17_ReviewErrorAborts ==
    Logged("review") /\ "apply" \in {svLog[k] : k \in DOMAIN svLog} =>
        /\ LET last == svCalls.review[Len(svCalls.review)]
           IN \A at \in Visits(svProjects) :
                 Made(svCalls.review, "FetchBranchPRs", at) =>
                     at.p < last.p \/ (at.p = last.p /\ at.w <= last.w)
        /\ svCalls.apply = <<>>

\* C18 (SpecLoop): whatever loading produced and whichever step failed, the
\* goroutine of the loop does not panic.
C18_NeverCrashes == svPc # "crashed"

-----------------------------------------------------------------------------
(* Worktree.review on its own (src/project.go) *)

\* what the calls of one Worktree.review give: the numbers of the open pull
\* requests of the branch in listing order, and which call fails
ReviewInputs ==
    [numbers : SeqsUpTo(PRNums, 2), listErr : BOOLEAN, commentsErr : BOOLEAN,
     promptErr : BOOLEAN, amendErr : BOOLEAN, pushErr : BOOLEAN]

\* the same as an element of the shape of ReviewEnvs
ReviewEnvOf(in) ==
    [prs |-> IF in.listErr THEN "err" ELSE IF Len(in.numbers) = 0 THEN "none" ELSE "some",
     commentsErr |-> in.commentsErr, promptErr |-> in.promptErr,
     amendErr |-> in.amendErr, pushErr |-> in.pushErr]

\* pr := prs[0]; client.Comments(ctx, w.Owner, w.Repo, pr.Number)
CommentsNumber(prs) == prs[1]

InitReview ==
    /\ rvIn = [numbers |-> <<>>, listErr |-> FALSE, commentsErr |-> FALSE,
               promptErr |-> FALSE, amendErr |-> FALSE, pushErr |-> FALSE]
    /\ rvOut = [hasReview |-> FALSE, err |-> FALSE, panic |-> FALSE, calls |-> <<>>,
                number |-> 0, done |-> FALSE]

\* one call of w.review(ctx, client)
RvReview ==
    /\ ~rvOut.done
    /\ \E in \in ReviewInputs :
          LET r == review([p |-> 1, w |-> 1], ReviewEnvOf(in))
              names == [i \in DOMAIN r.calls |-> r.calls[i].call]
          IN /\ rvIn' = in
             /\ rvOut' = [hasReview |-> r.hasReview, err |-> r.err, panic |-> r.panic,
                          calls |-> names,
                          number |-> IF Len(names) >= 2 THEN CommentsNumber(in.numbers)
                                     ELSE 0,
                          done |-> TRUE]
    /\ UNCHANGED nonReviewVars

NextReview == RvReview

\* the steps of a review in protocol order
ReviewSteps == <<"FetchBranchPRs", "Comments", "ocPrompt", "amendCommit", "push">>

\* whether the k-th step failed in the last review
StepFailed(k) ==
    <<rvIn.listErr, rvIn.commentsErr, rvIn.promptErr, rvIn.amendErr, rvIn.pushErr>>[k]

\* C24 (SpecReview): a review that finds no open pull request of the branch
\* returns (true, nil) after the listing alone; one that finds some returns
\* false and has run fetch comments (for the first listed one), agent prompt,
\* amend and push in this order, each only after the one before it succeeded,
\* up to the first that failed.
C24_ReviewProtocol ==
    ( rvOut.done /\ ~rvIn.listErr )
    => IF Len(rvIn.numbers) = 0
       THEN /\ ~rvOut.panic
            /\ rvOut.hasReview
            /\ ~rvOut.err
            /\ rvOut.calls = <<"FetchBranchPRs">>
       ELSE /\ ~rvOut.panic
            /\ ~rvOut.hasReview
            /\ Len(rvOut.calls) \in 2..Len(ReviewSteps)
            /\ rvOut.calls = SubSeq(ReviewSteps, 1, Len(rvOut.calls))
            /\ rvOut.number = rvIn.numbers[1]
            /\ \A k \in 2..Len(rvOut.calls) : ~StepFailed(k - 1)
            /\ Len(rvOut.calls) < Len(ReviewSteps) => StepFailed(Len(rvOut.calls))

\* C25 (SpecReview): a review whose listing fails returns the error; a review
\* whose client.Comments call fails returns the error and runs neither the
\* agent, nor amend, nor push.
C25_ClientErrorsPropagate ==
    rvOut.done
    => /\ rvIn.listErr
          => /\ ~rvOut.panic
             /\ rvOut.err
             /\ rvOut.calls = <<"FetchBranchPRs">>
       /\ ( ~rvIn.listErr /\ Len(rvIn.numbers) > 0 /\ rvIn.commentsErr )
          => /\ ~rvOut.panic
             /\ rvOut.err
             /\ rvOut.calls = <<"FetchBranchPRs", "Comments">>

-----------------------------------------------------------------------------
(* fetchReviews and its log (src/server.go) *)

\* the workspaces fetchReviews is run on: those of the control loop, with
\* worktrees whose status was not read (fetchReviews does not look at it)
FetchProjects ==
    {ps \in LoadedProjects :
        \A i \in DOMAIN ps : \A j \in DOMAIN ps[i].worktrees :
            ps[i].worktrees[j].Status = Nil}

InitFetch ==
    /\ frIn = [projects |-> <<>>, envs |-> <<>>]
    /\ frOut = [err |-> FALSE, panic |-> FALSE, logs |-> <<>>, calls |-> <<>>,
                done |-> FALSE]

\* fetchReviews(tCtx, client, projects) in the control loop
FrFetchReviews ==
    /\ ~frOut.done
    /\ \E projects \in FetchProjects :
          \E envs \in [Visits(projects) -> ReviewEnvs] :
             LET r == fetchReviews(projects, envs)
             IN /\ frIn' = [projects |-> projects, envs |-> envs]
                /\ frOut' = [err |-> r.err, panic |-> r.panic, logs |-> r.logs,
                             calls |-> r.calls, done |-> TRUE]
    /\ UNCHANGED nonFetchVars

NextFetch == FrFetchReviews

\* the worktrees whose review returned without error in the last fetchReviews
FrReviewed ==
    {at \in DOMAIN frIn.envs :
        /\ Made(frOut.calls, "FetchBranchPRs", at)
        /\ ~review(at, frIn.envs[at]).err
        /\ ~review(at, frIn.envs[at]).panic}

\* C36 (SpecFetch): for every worktree whose review returned without error,
\* fetchReviews logs "got review" when an open pull request was found and
\* handled (prompt, amend and push were run), and logs nothing for it when no
\* pull request was found.
C36_GotReviewLogged ==
    frOut.done
    => \A at \in FrReviewed :
          ( \E i \in DOMAIN frOut.logs : frOut.logs[i] = GotReview(at) )
              <=> /\ frIn.envs[at].prs = "some"
                  /\ Made(frOut.calls, "push", at)

-----------------------------------------------------------------------------
(* Server.Start: password authentication and shutdown (src/server.go) *)

\* the values of the -passkey flag, of TCR_PASSKEY and of a client's password
Passkeys == {"", "flagkey", "envkey"}

\* func (s *Server) passkey() string
passkey(password, env) == IF password # "" THEN password ELSE env

\* the callback handed to wish.WithPasswordAuth (lines 121-123)
PasswordAuth(password, supplied) == supplied = password

\* whether the server lets a client in that offers `supplied`: without a
\* password callback the SSH server asks for no authentication
Accepts(password, env, supplied) ==
    IF passkey(password, env) # "" THEN PasswordAuth(password, supplied) ELSE TRUE

\* a Server as SetFlags leaves it, in an environment with TCR_PASSKEY set or not
InitStart(passkeys) ==
    /\ ssPassword \in passkeys
    /\ ssEnv \in passkeys
    /\ ssPc = "boot"
    /\ ssCtx = "live"
    /\ ssShut = FALSE
    /\ ssRet = "none"
    /\ lsPc = "none"
    /\ lsVal = "none"
    /\ ssAuth = [asked |-> FALSE, supplied |-> "", accepted |-> FALSE]
    /\ ssCancelAt = "none"

\* lines 108-157: the workspace is set up, the server is built and the two
\* goroutines are started; either of the first two steps can fail
SsBoot ==
    /\ ssPc = "boot"
    /\ \E bootErr \in BOOLEAN, serverErr \in BOOLEAN :
          IF bootErr \/ serverErr
          THEN /\ ssPc' = "returned"
               /\ ssRet' = "err"
               /\ UNCHANGED lsPc
          ELSE /\ ssPc' = "select"
               /\ lsPc' = "listen"
               /\ UNCHANGED ssRet
    /\ UNCHANGED <<ssPassword, ssEnv, ssCtx, ssShut, lsVal, ssAuth, ssCancelAt>>
    /\ UNCHANGED nonStartVars

\* the caller cancels the context passed to Start
SsCancel ==
    /\ ssCtx = "live"
    /\ ssCtx' = "cancelled"
    /\ ssCancelAt' = lsPc
    /\ UNCHANGED <<ssPassword, ssEnv, ssPc, ssShut, ssRet, lsPc, lsVal, ssAuth>>
    /\ UNCHANGED nonStartVars

\* a client offers a password while the server listens
SsAuth ==
    /\ lsPc = "listen"
    /\ ~ssShut
    /\ \E supplied \in Passkeys :
          ssAuth' = [asked |-> TRUE, supplied |-> supplied,
                     accepted |-> Accepts(ssPassword, ssEnv, supplied)]
    /\ UNCHANGED <<ssPassword, ssEnv, ssPc, ssCtx, ssShut, ssRet, lsPc, lsVal, ssCancelAt>>
    /\ UNCHANGED nonStartVars

\* server.ListenAndServe() returns an error other than ssh.ErrServerClosed
\* (line 132): the goroutine is about to send it on done (line 133)
LsFail ==
    /\ lsPc = "listen"
    /\ ~ssShut
    /\ lsPc' = "send"
    /\ lsVal' = "err"
    /\ UNCHANGED <<ssPassword, ssEnv, ssPc, ssCtx, ssShut, ssRet, ssAuth, ssCancelAt>>
    /\ UNCHANGED nonStartVars

\* server.ListenAndServe() returns ssh.ErrServerClosed after Shutdown: the
\* goroutine is about to send nil on done (line 135)
LsClosed ==
    /\ lsPc = "listen"
    /\ ssShut
    /\ lsPc' = "send"
    /\ lsVal' = "nil"
    /\ UNCHANGED <<ssPassword, ssEnv, ssPc, ssCtx, ssShut, ssRet, ssAuth, ssCancelAt>>
    /\ UNCHANGED nonStartVars

\* select, case <-ctx.Done() (line 159)
SsSelectCtx ==
    /\ ssPc = "select"
    /\ ssCtx = "cancelled"
    /\ ssPc' = "shutdown"
    /\ UNCHANGED <<ssPassword, ssEnv, ssCtx, ssShut, ssRet, lsPc, lsVal, ssAuth, ssCancelAt>>
    /\ UNCHANGED nonStartVars

\* select, case err := <-done (lines 163-164): done is unbuffered, so the
\* listener goroutine's send and this receive happen together
SsSelectDone ==
    /\ ssPc = "select"
    /\ lsPc = "send"
    /\ ssPc' = "returned"
    /\ ssRet' = lsVal
    /\ lsPc' = "exit"
    /\ UNCHANGED <<ssPassword, ssEnv, ssCtx, ssShut, lsVal, ssAuth, ssCancelAt>>
    /\ UNCHANGED nonStartVars

\* server.Shutdown(shutdownCtx) is called (line 162): it closes the listeners,
\* which makes ListenAndServe return, and then waits for the open sessions or
\* for the 30 seconds of shutdownCtx
SsShutdownCall ==
    /\ ssPc = "shutdown"
    /\ ssShut' = TRUE
    /\ ssPc' = "closing"
    /\ UNCHANGED <<ssPassword, ssEnv, ssCtx, ssRet, lsPc, lsVal, ssAuth, ssCancelAt>>
    /\ UNCHANGED nonStartVars

\* server.Shutdown(shutdownCtx) returns (line 162); Start is about to send its
\* result on done.  No goroutine receives from done except Start's own select,
\* which Start has left: the send has no step that completes it.
SsShutdown ==
    /\ ssPc = "closing"
    /\ UNCHANGED ssShut
    /\ ssPc' = "send"
    /\ UNCHANGED <<ssPassword, ssEnv, ssCtx, ssRet, lsPc, lsVal, ssAuth, ssCancelAt>>
    /\ UNCHANGED nonStartVars

\* the steps of Start and of the listener goroutine
StartSteps ==
    SsSelectCtx \/ SsSelectDone \/ SsShutdownCall \/ SsShutdown \/ LsFail \/ LsClosed

NextStart == SsBoot \/ SsCancel \/ SsAuth \/ StartSteps

\* C37 (SpecStart): when the context was cancelled while the server was
\* listening, Start has returned or it, or the listener goroutine on whose
\* send it waits, can still take a step: Start is never blocked for good.
C37_StartReturns ==
    ( ssCtx = "cancelled" /\ ssCancelAt = "listen" /\ ssPc # "returned" )
    => ENABLED StartSteps

\* C38 (SpecStart): with a passkey configured by the flag or by TCR_PASSKEY, a
\* client is let in exactly when the password it offers is that passkey.
C38_PasskeyAuth ==
    ( ssAuth.asked /\ passkey(ssPassword, ssEnv) # "" )
    => ( ssAuth.accepted <=> ssAuth.supplied = passkey(ssPassword, ssEnv) )

-----------------------------------------------------------------------------
(* parseOrigin (src/project.go); strings are sequences of characters here *)

HttpsPrefix ==
    <<"h", "t", "t", "p", "s", ":", "/", "/", "g", "i", "t", "h", "u", "b", ".", "c",
      "o", "m", "/">>

SshPrefix == <<"g", "i", "t", "@", "g", "i", "t", "h", "u", "b", ".", "c", "o", "m", ":">>

DotGit == <<".", "g", "i", "t">>

\* strings.HasPrefix(str, prefix)
HasPrefix(str, prefix) ==
    Len(str) >= Len(prefix) /\ SubSeq(str, 1, Len(prefix)) = prefix

\* strings.CutPrefix(str, prefix)
CutPrefix(str, prefix) ==
    IF HasPrefix(str, prefix)
    THEN [after |-> SubSeq(str, Len(prefix) + 1, Len(str)), found |-> TRUE]
    ELSE [after |-> str, found |-> FALSE]

\* a plausible slip: the suffix is kept
TrimSuffixKeeps(str, suffix) == str

\* strings.TrimSuffix(str, suffix)
TrimSuffix(str, suffix) ==
    IF Len(str) >= Len(suffix) /\ SubSeq(str, Len(str) - Len(suffix) + 1, Len(str)) = suffix
    THEN SubSeq(str, 1, Len(str) - Len(suffix))
    ELSE str

\* strings.Cut(str, sep) for a separator of one character
Cut(str, sep) ==
    IF \E i \in DOMAIN str : str[i] = sep
    THEN LET i == CHOOSE k \in DOMAIN str :
                      str[k] = sep /\ \A j \in 1..(k - 1) : str[j] # sep
         IN [before |-> SubSeq(str, 1, i - 1), after |-> SubSeq(str, i + 1, Len(str)),
             found |-> TRUE]
    ELSE [before |-> str, after |-> <<>>, found |-> FALSE]

\* func parseOrigin(origin string) (owner, repo string, err error)
parseOrigin(origin) ==
    LET https == CutPrefix(origin, HttpsPrefix)
        ssh == CutPrefix(origin, SshPrefix)
    IN IF ~https.found /\ ~ssh.found
       THEN [owner |-> <<>>, repo |-> <<>>, err |-> "unsupported remote origin: %s"]
       ELSE LET title == TrimSuffix(IF https.found THEN https.after ELSE ssh.after, DotGit)
                c == Cut(title, "/")
            IN [owner |-> c.before, repo |-> c.after,
                err |-> IF ~c.found \/ c.before = <<>> \/ c.after = <<>>
                        THEN "could not parse owner/repo from origin: %s"
                        ELSE ""]

\* the parts the model builds origins from
OriginPrefixes ==
    {HttpsPrefix, SshPrefix, <<>>,
     <<"h", "t", "t", "p", ":", "/", "/", "g", "i", "t", "h", "u", "b", ".", "c", "o",
       "m", "/">>,
     <<"h", "t", "t", "p", "s", ":", "/", "/", "g", "i", "t", "l", "a", "b", ".", "c",
       "o", "m", "/">>}

OriginOwners == {<<>>, <<"o">>, <<"o", "w">>}

OriginRepos == {<<>>, <<"r">>, <<"r", "/", "x">>, <<"r", ".", "g", "i", "t">>}

OriginParts ==
    [prefix : OriginPrefixes, owner : OriginOwners, sep : {<<>>, <<"/">>},
     repo : OriginRepos, suffix : {<<>>, DotGit}]

OriginOf(parts) == parts.prefix \o parts.owner \o parts.sep \o parts.repo \o parts.suffix

InitOrigin ==
    /\ poIn = [prefix |-> <<>>, owner |-> <<>>, sep |-> <<>>, repo |-> <<>>,
               suffix |-> <<>>]
    /\ poOut = [owner |-> <<>>, repo |-> <<>>, err |-> "", done |-> FALSE]

\* parseOrigin(strings.TrimSpace(string(b))) in LoadProject
PoParse ==
    /\ ~poOut.done
    /\ \E parts \in OriginParts :
          LET r == parseOrigin(OriginOf(parts))
          IN /\ poIn' = parts
             /\ poOut' = [owner |-> r.owner, repo |-> r.repo, err |-> r.err, done |-> TRUE]
    /\ UNCHANGED nonOriginVars

NextOrigin == PoParse

\* the text after the prefix
PoTitle == poIn.owner \o poIn.sep \o poIn.repo \o poIn.suffix

\* C28 (SpecOrigin): for an origin made of the https or ssh prefix of
\* github.com, a non-empty owner, "/", a non-empty repo and an optional ".git",
\* parseOrigin returns the owner and the repo without that ".git" and no error;
\* it returns an error for another prefix, for a text without "/" after the
\* prefix, and for an empty owner or repo; and whenever it returns no error,
\* owner and repo are not empty.
C28_ParseOrigin ==
    poOut.done
    => LET github == poIn.prefix \in {HttpsPrefix, SshPrefix}
           wellFormed == /\ github
                         /\ poIn.owner # <<>>
                         /\ poIn.sep = <<"/">>
                         /\ poIn.repo # <<>>
       IN /\ ( wellFormed /\ poIn.suffix = DotGit )
             => /\ poOut.err = ""
                /\ poOut.owner = poIn.owner
                /\ poOut.repo = poIn.repo
          /\ ( wellFormed /\ poIn.suffix = <<>> )
             => /\ poOut.err = ""
                /\ poOut.owner = poIn.owner
                /\ poOut.repo = IF poIn.repo = <<"r", ".", "g", "i", "t">> THEN <<"r">>
                                ELSE poIn.repo
          /\ ~github => poOut.err # ""
          /\ ( \A i \in DOMAIN PoTitle : PoTitle[i] # "/" ) => poOut.err # ""
          /\ ( poIn.sep = <<"/">> /\ poIn.owner = <<>> ) => poOut.err # ""
          /\ ( poIn.sep = <<"/">> /\ poIn.owner # <<>> /\ poIn.repo = <<>> )
             => poOut.err # ""
          /\ poOut.err = "" => poOut.owner # <<>> /\ poOut.repo # <<>>

\* "git@github.com:ow/r.git" was parsed into "ow" and "r"
C28_Witness ==
    /\ poOut.done
    /\ poIn = [prefix |-> SshPrefix, owner |-> <<"o", "w">>, sep |-> <<"/">>,
               repo |-> <<"r">>, suffix |-> DotGit]
    /\ poOut = [owner |-> <<"o", "w">>, repo |-> <<"r">>, err |-> "", done |-> TRUE]

-----------------------------------------------------------------------------
(* FormattedReview.String (src/project_list.go) *)

\* most comments of one review in the model
MaxReviewComments == 3

\* c.File, as sequences of characters: two names of one length, a longer one
FileNames == {<<"a">>, <<"b">>, <<"c", "c">>}

\* c.Line; 0 marks a comment on the file
LineNumbers == {0, 1, 2}

\* cmp.Compare on two ints
CmpInt(a, b) == IF a < b THEN -1 ELSE IF a > b THEN 1 ELSE 0

\* func compareFormattedComment(a, b FormattedComment) int
compareFormattedComment(a, b) ==
    IF Len(a.File) > Len(b.File) THEN -1
    ELSE IF Len(a.File) < Len(b.File) THEN 1
    ELSE IF a.Line = 0 /\ b.Line # 0 THEN -1
    ELSE IF a.Line # 0 /\ b.Line = 0 THEN 1
    ELSE IF a.Line # b.Line THEN -CmpInt(a.Line, b.Line)
    ELSE CmpInt(a.Index, b.Index)

\* the character U+0060 that encloses a location, written "'" because a TLA+
\* string cannot hold it
Backquote == "'"

\* func (c FormattedComment) Location() string
Location(c) ==
    IF c.Line = 0 THEN <<Backquote>> \o c.File \o <<Backquote>>
    ELSE IF c.IsOldSide
    THEN <<Backquote>> \o c.File \o <<":", "~", Itoa(c.Line), Backquote>>
    ELSE <<Backquote>> \o c.File \o <<":", Itoa(c.Line), Backquote>>

\* slices.SortFunc(review.Comments, compareFormattedComment): an insertion
\* sort for slices of up to 12 elements
RECURSIVE SinkComment(_, _)
SinkComment(x, j) ==
    IF j > 1 /\ compareFormattedComment(x[j], x[j - 1]) < 0
    THEN SinkComment([x EXCEPT ![j] = x[j - 1], ![j - 1] = x[j]], j - 1)
    ELSE x

RECURSIVE SortComments(_, _)
SortComments(x, i) ==
    IF i > Len(x) THEN x ELSE SortComments(SinkComment(x, i), i + 1)

\* func (review *FormattedReview) String() string: review.Comments as the call
\* leaves it, and number and location of every item of the list it writes
ReviewString(comments) ==
    LET sorted == SortComments(comments, 2)
    IN [comments |-> sorted,
        items |-> [i \in DOMAIN sorted |-> [n |-> i, location |-> Location(sorted[i])]]]

\* the comments of a review as Comments builds them: Index is the id of the
\* comment, and the API lists comments by ascending id
ReviewComments ==
    {[i \in DOMAIN cs |-> [IsOldSide |-> cs[i].IsOldSide, File |-> cs[i].File,
                           Line |-> cs[i].Line, Index |-> i]] :
        cs \in SeqsUpTo([IsOldSide : BOOLEAN, File : FileNames, Line : LineNumbers],
                        MaxReviewComments)}

InitFormat ==
    /\ fmIn = <<>>
    /\ fmOut = [comments |-> <<>>, items |-> <<>>, done |-> FALSE]

\* comments.String() on the review of one pull request
FmString ==
    /\ ~fmOut.done
    /\ \E comments \in ReviewComments :
          LET r == ReviewString(comments)
          IN /\ fmIn' = comments
             /\ fmOut' = [comments |-> r.comments, items |-> r.items, done |-> TRUE]
    /\ UNCHANGED nonFormatVars

NextFormat == FmString

\* C29 (SpecFormat): in the list String writes, of two comments on one file a
\* file-level one comes before a line comment, a line comment comes before one
\* on a higher line, and two on the same line keep their original order; an
\* old-side line comment is located file:~line, another line comment
\* file:line.
C29_FormattedOrder ==
    fmOut.done
    => LET out == fmOut.comments
       IN /\ \A i, j \in DOMAIN out :
                ( i < j /\ out[i].File = out[j].File )
                => /\ ~( out[i].Line # 0 /\ out[j].Line = 0 )
                   /\ ( out[i].Line # 0 /\ out[j].Line # 0 ) => out[i].Line <= out[j].Line
                   /\ out[i].Line = out[j].Line => out[i].Index < out[j].Index
          /\ \A i \in DOMAIN out :
                out[i].Line # 0
                => fmOut.items[i].location =
                      <<"'">> \o out[i].File
                          \o ( IF out[i].IsOldSide THEN <<":", "~">> ELSE <<":">> )
                          \o << Digits[out[i].Line + 1], "'" >>

-----------------------------------------------------------------------------
(* The execution agent (src/agent.go) *)

defaultOcModel == "github-copilot/claude-sonnet-4.5"

\* w.Model: empty, or the identifier of a model
AgentModels == {"", "openai/gpt-5", "github-copilot/claude-sonnet-4.5"}

\* review texts handed to the agent
AgentPrompts == {"review 1", "review 2", "review 3"}

\* func ocCommand(ctx, path, model, cmd, args...): the arguments of `opencode`
ocCommand(model, cmd, args) == <<"run", "-m", model, "--command", cmd>> \o args

\* func ocPrompt(ctx, path, model, prompt): the arguments of `opencode`
ocPrompt(model, prompt) ==
    <<"run", "-m", IF model = "" THEN defaultOcModel ELSE model, prompt>>

\* the log keeps the latest two invocations
Logged2(log, argv) == IF Len(log) = 0 THEN <<argv>> ELSE <<argv, log[1]>>

InitAgent ==
    /\ agIn = [fn |-> "none", model |-> "", arg |-> ""]
    /\ agLog = <<>>

\* ocPrompt(ctx, w.Path, w.Model, comments.String()) in Worktree.review
AgReviewPrompt ==
    /\ \E model \in AgentModels, prompt \in AgentPrompts :
          /\ agIn' = [fn |-> "ocPrompt", model |-> model, arg |-> prompt]
          /\ agLog' = Logged2(agLog, ocPrompt(model, prompt))
    /\ UNCHANGED nonAgentVars

\* ocCommand(ctx, w.Path, w.Model, "opsx-apply") in applyChanges
AgApplyCommand ==
    /\ \E model \in AgentModels :
          /\ agIn' = [fn |-> "ocCommand", model |-> model, arg |-> "opsx-apply"]
          /\ agLog' = Logged2(agLog, ocCommand(model, "opsx-apply", <<>>))
    /\ UNCHANGED nonAgentVars

NextAgent == AgReviewPrompt \/ AgApplyCommand

\* C30 (SpecAgent): an agent invocation for a worktree with an empty model
\* identifier, be it the review prompt or the apply command, hands the default
\* model identifier to the agent after "-m".
C30_DefaultModel ==
    ( agIn.fn # "none" /\ agIn.model = "" )
    => /\ agLog[1][2] = "-m"
       /\ agLog[1][3] = defaultOcModel

-----------------------------------------------------------------------------
(* LoadProject and LoadProjects (src/project.go) *)

\* the white space `git remote get-url` prints around the URL
IsSpace(c) == c \in {" ", "\n", "\t", "\r"}

RECURSIVE TrimLeft(_)
TrimLeft(str) ==
    IF Len(str) > 0 /\ IsSpace(str[1]) THEN TrimLeft(Tail(str)) ELSE str

RECURSIVE TrimRight(_)
TrimRight(str) ==
    IF Len(str) > 0 /\ IsSpace(str[Len(str)])
    THEN TrimRight(SubSeq(str, 1, Len(str) - 1))
    ELSE str

\* strings.TrimSpace(str)
TrimSpace(str) == TrimRight(TrimLeft(str))

\* func LoadProject(ctx, path, worktreeDir) (*Project, error).  remote is the
\* result of `git remote get-url origin`, dir the result of os.ReadDir on the
\* project's worktree directory and runs the tool's outputs in each worktree.
\* The *Project is nil, or a record of the fields the model follows.
LoadProject(path, remote, dir, runs) ==
    IF remote.err THEN [p |-> Nil, err |-> TRUE]
    ELSE LET o == parseOrigin(TrimSpace(remote.out))
         IN IF o.err # "" THEN [p |-> Nil, err |-> TRUE]
            ELSE LET r == Refresh(<<>>, dir, runs)
                 IN [p |-> Ref([owner |-> Join(o.owner, ""), repo |-> Join(o.repo, ""),
                                repoPath |-> path, worktrees |-> r.worktrees]),
                     err |-> r.err]

\* the loop of LoadProjects over the entries of the repository directory
RECURSIVE LoadProjectsLoop(_, _)
LoadProjectsLoop(projects, entries) ==
    IF Len(entries) = 0 THEN [projects |-> projects, err |-> FALSE]
    ELSE LET entry == Head(entries)
         IN IF entry.isDir
            THEN LET r == LoadProject("repo/" \o entry.name, entry.remote, entry.dir,
                                      entry.runs)
                 IN IF r.err THEN [projects |-> <<>>, err |-> TRUE]
                    ELSE LoadProjectsLoop(Append(projects, Deref(r.p)), Tail(entries))
            ELSE LoadProjectsLoop(projects, Tail(entries))

\* func LoadProjects(ctx, repoDir, worktreeDir) ([]*Project, error).  repoDir is
\* the result of os.ReadDir(repoDir), each entry with what LoadProject finds in it.
LoadProjects(repoDir) ==
    IF repoDir.err THEN [projects |-> <<>>, err |-> TRUE]
    ELSE LoadProjectsLoop(<<>>, repoDir.entries)

\* the arguments of client.FetchBranchPRs in Worktree.review
FetchBranchPRsArgs(wt) == [owner |-> wt.Owner, repo |-> wt.Repo, branch |-> wt.Name]

\* the repository directories of the workspace, in the order os.ReadDir lists them
RepoNames == <<"api", "web">>

RepoChars(name) == IF name = "api" THEN <<"a", "p", "i">> ELSE <<"w", "e", "b">>

NoFile == [n \in Names |-> "none"]

\* os.ReadDir on a worktree directory that holds the given names as directories
DirOf(names) ==
    [err |-> "none",
     entries |-> SortedEntries({[name |-> n, isDir |-> TRUE] : n \in names})]

RunsOf(run) == [n \in Names |-> run]

\* what LoadProject can find in one repository directory: no origin remote, an
\* origin on another forge, an origin without "owner/", and GitHub origins with
\* a worktree directory that is missing, unreadable, or holds worktrees whose
\* status can or cannot be read
RepoKinds(name) ==
    LET pending == CHOOSE run \in ProjectRuns :
                       Len(run.list.changes) > 0 /\ run.show = ShowPending
        broken == CHOOSE run \in ProjectRuns :
                       Len(run.list.changes) > 0 /\ run.show = ShowFails
        https == [err |-> FALSE,
                  out |-> HttpsPrefix \o <<"o", "/">> \o RepoChars(name) \o DotGit
                              \o <<"\n">>]
        ssh == [err |-> FALSE,
                out |-> SshPrefix \o <<"o", "w", "/">> \o RepoChars(name) \o <<"\n">>]
        entry(remote, dir, run) ==
            [name |-> name, isDir |-> TRUE, remote |-> remote, dir |-> dir,
             runs |-> RunsOf(run)]
    IN {[name |-> name, isDir |-> FALSE, remote |-> [err |-> TRUE, out |-> <<>>],
         dir |-> DirOf({}), runs |-> RunsOf(pending)],
        entry([err |-> TRUE, out |-> <<>>], DirOf({}), pending),
        entry([err |-> FALSE,
               out |-> <<"g", "i", "t", "@", "h", "o", "s", "t", ":", "o", "/", "r", "\n">>],
              DirOf({}), pending),
        entry([err |-> FALSE, out |-> HttpsPrefix \o RepoChars(name) \o <<"\n">>],
              DirOf({}), pending),
        entry(https, [err |-> "notexist", entries |-> <<>>], pending),
        entry(https, [err |-> "other", entries |-> <<>>], pending),
        entry(https, DirOf({<<97>>}), pending),
        entry(ssh, DirOf({<<97>>, <<98>>}), pending),
        entry(ssh, DirOf({<<97>>}), broken)}

\* results of os.ReadDir(repoDir): an error, or any of the repository names,
\* each as one of its kinds
RepoDirs ==
    {[err |-> TRUE, entries |-> <<>>], [err |-> FALSE, entries |-> <<>>]}
        \cup {[err |-> FALSE, entries |-> <<e>>] :
                 e \in RepoKinds(RepoNames[1]) \cup RepoKinds(RepoNames[2])}
        \cup {[err |-> FALSE, entries |-> <<e1, e2>>] :
                 e1 \in RepoKinds(RepoNames[1]), e2 \in RepoKinds(RepoNames[2])}

InitLoad ==
    /\ ldIn = [err |-> FALSE, entries |-> <<>>]
    /\ ldOut = [projects |-> <<>>, err |-> FALSE, done |-> FALSE]
    /\ ldOp = [name |-> "none", project |-> 0, args |-> <<>>]

\* m.loadProjects: LoadProjects(context.Background(), repoDir, wtDir)
LdLoadProjects ==
    /\ ~ldOut.done
    /\ \E repoDir \in RepoDirs :
          LET r == LoadProjects(repoDir)
          IN /\ ldIn' = repoDir
             /\ ldOut' = [projects |-> r.projects, err |-> r.err, done |-> TRUE]
    /\ ldOp' = [name |-> "LoadProjects", project |-> 0, args |-> <<>>]
    /\ UNCHANGED nonLoadVars

\* p.AddWorktree(ctx, name) on a loaded project
LdAddWorktree ==
    /\ ldOut.done
    /\ ldOp.name # "AddWorktree"
    /\ \E i \in DOMAIN ldOut.projects, name \in Names, createErr \in BOOLEAN,
          run \in ProjectRuns :
          LET r == AddWorktree(ldOut.projects[i].worktrees, name, FALSE, createErr,
                               run.list, run.show)
          IN /\ ldOut' = [ldOut EXCEPT !.projects[i].worktrees = r.worktrees]
             /\ ldOp' = [name |-> "AddWorktree", project |-> i, args |-> name]
    /\ UNCHANGED ldIn
    /\ UNCHANGED nonLoadVars

\* w.review(ctx, client) on a worktree of a loaded project, up to its first call
LdReview ==
    /\ ldOut.done
    /\ \E i \in DOMAIN ldOut.projects :
          \E j \in DOMAIN ldOut.projects[i].worktrees :
             ldOp' = [name |-> "review", project |-> i,
                      args |-> FetchBranchPRsArgs(ldOut.projects[i].worktrees[j])]
    /\ UNCHANGED <<ldIn, ldOut>>
    /\ UNCHANGED nonLoadVars

NextLoad == LdLoadProjects \/ LdAddWorktree \/ LdReview

\* C31 (SpecLoad): every worktree in a loaded project's list, built by
\* LoadProject/Refresh or inserted by AddWorktree, carries the project's owner
\* and repo, and Worktree.review asks the forge for the pull requests of that
\* owner and repo.
C31_WorktreeOwnerRepo ==
    /\ \A i \in DOMAIN ldOut.projects :
          \A j \in DOMAIN ldOut.projects[i].worktrees :
             /\ ldOut.projects[i].worktrees[j].Owner = ldOut.projects[i].owner
             /\ ldOut.projects[i].worktrees[j].Repo = ldOut.projects[i].repo
    /\ ldOp.name = "review"
       => /\ ldOp.args.owner = ldOut.projects[ldOp.project].owner
          /\ ldOp.args.repo = ldOut.projects[ldOp.project].repo

\* C32 (SpecLoad): when the repository directory can be listed, every
\* repository in it that LoadProject loads without error is among the projects
\* LoadProjects returns, whatever happens to the other repositories.
C32_ReposIndependent ==
    ( ldOut.done /\ ~ldIn.err )
    => \A k \in DOMAIN ldIn.entries :
          LET entry == ldIn.entries[k]
              r == LoadProject("repo/" \o entry.name, entry.remote, entry.dir, entry.runs)
          IN ( entry.isDir /\ ~r.err )
             => \E i \in DOMAIN ldOut.projects :
                   ldOut.projects[i].repoPath = Deref(r.p).repoPath

-----------------------------------------------------------------------------
(* The interactive model (src/app.go) with its two lists                   *)
(* (src/project_list.go, src/worktree_list.go).  The model struct is a     *)
(* record m; Update, formUpdate and handleFormDone return the new record,  *)
(* the messages their tea.Cmd will produce, the destructive calls they     *)
(* made and whether they dereferenced a nil pointer.  A *Project is an      *)
(* address; m.heap holds the Project at each address that the model, its   *)
(* project list or a message in flight points to, so that a change made    *)
(* through one pointer is seen through every other.                        *)

\* the worktree names of the lists: "a" and "b"
UiNames == {<<97>>, <<98>>}

\* the tool's outputs in every worktree of the UI: openspec is set up, no change
UiRun == CHOOSE run \in ProjectRuns : ~run.list.err /\ run.list.changes = <<>>

UiWorktree(name) ==
    refresh(NewWorktree(name, FilepathJoin(WorktreePath, name)), UiRun.list, UiRun.show).w

\* a *Project as LoadProject builds it
UiProject(repo, names) ==
    [repo |-> repo, repoPath |-> "repo/" \o repo, worktreePath |-> "worktree/" \o repo,
     worktrees |-> [i \in DOMAIN names |-> UiWorktree(names[i])]]

\* func (p *Project) Title() string, for the one owner of the model
Title(p) == "o/" \o p.repo

\* what LoadProjects can return: an error, no project, one project without
\* worktrees, two projects with worktrees
LoadResults ==
    {[projects |-> <<>>, err |-> TRUE],
     [projects |-> <<>>, err |-> FALSE],
     [projects |-> <<UiProject("api", <<>>)>>, err |-> FALSE],
     [projects |-> <<UiProject("api", <<(<<97>>), (<<98>>)>>),
                     UiProject("web", <<(<<97>>)>>)>>, err |-> FALSE]}

\* what os.ReadDir gives Refresh in the UI
UiDirs ==
    {[err |-> "notexist", entries |-> <<>>], [err |-> "other", entries |-> <<>>],
     DirOf({<<97>>, <<98>>})}

\* the items a WorktreeList shows: the names of the worktrees
Items(wts) == [i \in DOMAIN wts |-> wts[i].Name]

\* messages: tea.KeyMsg (action: the key), spinner.TickMsg, projectsLoadedMsg,
\* cmdFinishedMsg, worktreeSelectedMsg and projectSelectedMsg
Msg(type, action, worktree, project) ==
    [type |-> type, action |-> action, worktree |-> worktree, project |-> project,
     err |-> FALSE, projects |-> <<>>]

KeyMsg(k) == Msg("KeyMsg", k, Nil, Nil)

TickMsg == Msg("TickMsg", "", Nil, Nil)

\* the two messages whose content is known when they arrive
LoadedMsg == Msg("projectsLoadedMsg", "", Nil, Nil)

FinishedMsg == Msg("cmdFinishedMsg", "", Nil, Nil)

\* keys bound in either list, and one that is bound in neither
UiKeys == {"e", "c", "d", "q", "r", "i", "x"}

\* func (w *WorktreeList) Update(msg): the messages its command produces.  The
\* selected item is the one under the cursor, if the list has items.
WorktreeListUpdate(items, msg, cursor) ==
    LET selected == IF cursor \in DOMAIN items THEN Ref(items[cursor]) ELSE Nil
    IN IF msg.type # "KeyMsg" THEN {}
       ELSE IF msg.action = "r"
       THEN IF selected # Nil THEN {Msg("worktreeSelectedMsg", "ActionReview", selected, Nil)}
            ELSE {}
       ELSE IF msg.action = "i"
       THEN IF selected # Nil
            THEN {Msg("worktreeSelectedMsg", "ActionInteract", selected, Nil)}
            ELSE {}
       ELSE IF msg.action = "c" THEN {Msg("worktreeSelectedMsg", "ActionCreate", Nil, Nil)}
       ELSE IF msg.action = "d"
       THEN IF selected # Nil THEN {Msg("worktreeSelectedMsg", "ActionDelete", selected, Nil)}
            ELSE {}
       ELSE IF msg.action = "q" THEN {Msg("worktreeSelectedMsg", "ActionBack", Nil, Nil)}
       ELSE {}

\* func (p *ProjectList) Update(msg): the messages its command produces
ProjectListUpdate(items, msg, cursor) ==
    LET selected == IF cursor \in DOMAIN items THEN Ref(items[cursor]) ELSE Nil
    IN IF msg.type # "KeyMsg" THEN {}
       ELSE IF msg.action = "e"
       THEN IF selected # Nil
            THEN {Msg("projectSelectedMsg", "ProjectActionExplore", Nil, selected)}
            ELSE {}
       ELSE IF msg.action = "c"
       THEN {Msg("projectSelectedMsg", "ProjectActionClone", Nil, Nil)}
       ELSE IF msg.action = "d"
       THEN IF selected # Nil
            THEN {Msg("projectSelectedMsg", "ProjectActionDelete", Nil, selected)}
            ELSE {}
       ELSE IF msg.action = "q"
       THEN {Msg("projectSelectedMsg", "ProjectActionQuit", Nil, Nil)}
       ELSE {}

\* huh forms: kind is the constructor, subject what the title names, State
\* huh's form state, and name and confirm the values the user entered
Form(kind, subject) ==
    [kind |-> kind, subject |-> subject, State |-> "StateNormal", name |-> <<>>,
     confirm |-> FALSE]

cloneForm == Form("cloneForm", [kind |-> "", name |-> <<>>, title |-> ""])

newWorktreeForm(repoName) ==
    Form("newWorktreeForm", [kind |-> "", name |-> <<>>, title |-> repoName])

\* deleteConfirmForm("worktree", name) and deleteConfirmForm("project", title)
deleteConfirmForm(kind, name, title) ==
    Form("deleteConfirmForm", [kind |-> kind, name |-> name, title |-> title])

FormStates == {"newRepoState", "newWorktreeState", "deleteWorktreeState", "deleteProjectState"}

\* func NewModel(workspace, sess, renderer) tea.Model
NewModel ==
    [err |-> Nil, form |-> Nil, state |-> "mainState", loading |-> TRUE,
     projectList |-> Nil, selectedProject |-> Nil, project |-> Nil, wtList |-> Nil,
     selectedWorktree |-> Nil, heap |-> <<>>]

\* *p for a *Project p that is not nil
At(m, p) == m.heap[Deref(p)]

\* the first k addresses from `from` on that are not in use
RECURSIVE NewAddresses(_, _, _)
NewAddresses(used, k, from) ==
    IF k = 0 THEN <<>>
    ELSE IF from \in used THEN NewAddresses(used, k, from + 1)
    ELSE <<from>> \o NewAddresses(used, k - 1, from + 1)

\* the heap with the loaded projects at the addresses given
Allocate(heap, projects, addresses) ==
    [a \in DOMAIN heap \cup {addresses[i] : i \in DOMAIN addresses} |->
        IF \E i \in DOMAIN addresses : addresses[i] = a
        THEN projects[CHOOSE i \in DOMAIN addresses : addresses[i] = a]
        ELSE heap[a]]

\* what a handler returns: the model, the messages of its command, the
\* destructive calls it made, the form it closed, whether it quits or panicked
Ret(m, cmds) ==
    [m |-> m, cmds |-> cmds, destroyed |-> <<>>, closed |-> Nil, quit |-> FALSE,
     panic |-> FALSE]

\* a nil pointer was dereferenced: the program crashes
Panic(m) ==
    [m |-> m, cmds |-> {}, destroyed |-> <<>>, closed |-> Nil, quit |-> FALSE,
     panic |-> TRUE]

\* func (m *model) startLoadProjects() tea.Cmd, as the last statement of a handler
startLoadProjects(m) == Ret([m EXCEPT !.loading = TRUE], {LoadedMsg})

\* a plausible slip: the state changes and the form is left as it was
setFormKeepsForm(m, form, s) == [m EXCEPT !.state = s]

\* func (m *model) setForm(form, s) tea.Cmd
setForm(m, form, s) == [m EXCEPT !.form = form, !.state = s]

\* what the outside gives one Update: the user's input to a form, the cursor
\* of a list, and the results of the external calls the handler makes
DefaultEnv ==
    [form |-> [State |-> "StateNormal", name |-> <<>>, confirm |-> FALSE],
     cursor |-> 1, cloneErr |-> FALSE, createErr |-> FALSE, deleteErr |-> FALSE,
     rmRepoErr |-> FALSE, rmWtErr |-> FALSE, dir |-> DirOf({})]


\* a destructive call: Project.DeleteWorktree(name) or os.RemoveAll(path)
Destroy(call, name, path) == [call |-> call, name |-> name, path |-> path]

\* a plausible slip: the answer of the confirmation is not looked at
ConfirmedAlways(f) == TRUE

\* confirmed := m.form.Get("confirm").(bool)
Confirmed(f) == f.confirm

\* handleFormDone, huh.StateCompleted, case newRepoState (lines 166-173)
completedNewRepo(m, f, env) ==
    LET m1 == setForm(m, Nil, "mainState")
    IN startLoadProjects(IF env.cloneErr THEN [m1 EXCEPT !.err = Ref("clone")] ELSE m1)

\* case newWorktreeState after m.project.AddWorktree returned r (lines 177-182)
addedWorktree(m1, p, r) ==
    IF r.err THEN Ret([m1 EXCEPT !.err = Ref("AddWorktree")], {})
    ELSE IF m1.wtList = Nil THEN Panic([m1 EXCEPT !.heap[p].worktrees = r.worktrees])
    ELSE startLoadProjects([m1 EXCEPT !.heap[p].worktrees = r.worktrees,
                                      !.wtList = Ref(Items(r.worktrees))])

\* handleFormDone, huh.StateCompleted, case newWorktreeState (lines 174-182)
completedNewWorktree(m, f, env) ==
    IF m.project = Nil THEN Panic(setForm(m, Nil, "projectState"))
    ELSE addedWorktree(setForm(m, Nil, "projectState"), Deref(m.project),
                       AddWorktree(At(m, m.project).worktrees, f.name, FALSE,
                                   env.createErr, UiRun.list, UiRun.show))

\* case deleteWorktreeState after m.project.DeleteWorktree returned r (lines 187-194)
deletedWorktree(m1, p, name, r) ==
    IF r.err
    THEN [Ret([m1 EXCEPT !.err = Ref("DeleteWorktree"), !.selectedWorktree = Nil], {})
             EXCEPT !.destroyed = <<Destroy("DeleteWorktree", name, "")>>]
    ELSE IF m1.wtList = Nil
    THEN [Panic([m1 EXCEPT !.heap[p].worktrees = r.worktrees])
             EXCEPT !.destroyed = <<Destroy("DeleteWorktree", name, "")>>]
    ELSE [Ret([m1 EXCEPT !.heap[p].worktrees = r.worktrees,
                         !.wtList = Ref(Items(r.worktrees)),
                         !.selectedWorktree = Nil], {})
             EXCEPT !.destroyed = <<Destroy("DeleteWorktree", name, "")>>]

\* handleFormDone, huh.StateCompleted, case deleteWorktreeState (lines 183-194)
completedDeleteWorktree(m, f, env) ==
    IF Confirmed(f)
    THEN IF m.project = Nil \/ m.selectedWorktree = Nil
         THEN Panic(setForm(m, Nil, "projectState"))
         ELSE deletedWorktree(setForm(m, Nil, "projectState"), Deref(m.project),
                              Deref(m.selectedWorktree),
                              DeleteWorktree(At(m, m.project).worktrees,
                                             Deref(m.selectedWorktree), env.deleteErr))
    ELSE Ret([setForm(m, Nil, "projectState") EXCEPT !.selectedWorktree = Nil], {})

\* handleFormDone, huh.StateCompleted, case deleteProjectState (lines 195-209)
completedDeleteProject(m, f, env) ==
    IF m.selectedProject = Nil THEN Panic(m)
    ELSE LET sp == At(m, m.selectedProject)
             m1 == setForm([m EXCEPT !.selectedProject = Nil], Nil, "mainState")
             m2 == IF env.rmRepoErr THEN [m1 EXCEPT !.err = Ref("RemoveAll repo")] ELSE m1
             m3 == IF env.rmWtErr THEN [m2 EXCEPT !.err = Ref("RemoveAll worktree")] ELSE m2
         IN IF Confirmed(f)
            THEN [startLoadProjects(m3)
                     EXCEPT !.destroyed = <<Destroy("RemoveAll", <<>>, sp.repoPath),
                                            Destroy("RemoveAll", <<>>, sp.worktreePath)>>]
            ELSE startLoadProjects(m1)

\* func (m *model) handleFormDone() (tea.Model, tea.Cmd)
handleFormDone(m, env) ==
    IF m.form = Nil THEN Panic(m)
    ELSE LET f == Deref(m.form)
             r == IF f.State = "StateAborted"
                  THEN IF m.state = "newRepoState"
                       THEN startLoadProjects(setForm(m, Nil, "mainState"))
                       ELSE IF m.state \in {"newWorktreeState", "deleteWorktreeState"}
                       THEN Ret(setForm(m, Nil, "projectState"), {})
                       ELSE IF m.state = "deleteProjectState"
                       THEN startLoadProjects(
                                setForm([m EXCEPT !.selectedProject = Nil], Nil, "mainState"))
                       ELSE Ret(m, {})
                  ELSE IF f.State = "StateCompleted"
                  THEN IF m.state = "newRepoState" THEN completedNewRepo(m, f, env)
                       ELSE IF m.state = "newWorktreeState"
                       THEN completedNewWorktree(m, f, env)
                       ELSE IF m.state = "deleteWorktreeState"
                       THEN completedDeleteWorktree(m, f, env)
                       ELSE IF m.state = "deleteProjectState"
                       THEN completedDeleteProject(m, f, env)
                       ELSE Ret(m, {})
                  ELSE Ret(m, {})
         IN [r EXCEPT !.closed = Ref(f)]

\* m.form.Update(msg): the form takes the user's keys, which leave it as it
\* is, complete it with the values entered, or abort it
FormUpdate(f, msg, env) ==
    IF msg.type = "KeyMsg"
    THEN [f EXCEPT !.State = env.form.State, !.name = env.form.name,
                   !.confirm = env.form.confirm]
    ELSE f

Terminal == {"StateAborted", "StateCompleted"}

\* formUpdate after m.form.Update(msg) (lines 228-236)
formUpdated(m1, env) ==
    IF Deref(m1.form).State \in Terminal THEN handleFormDone(m1, env) ELSE Ret(m1, {})

\* func (m *model) formUpdate(msg) (tea.Model, tea.Cmd)
formUpdate(m, msg, env) ==
    IF m.form = Nil THEN Panic(m)
    ELSE IF Deref(m.form).State \in Terminal THEN handleFormDone(m, env)
    ELSE formUpdated([m EXCEPT !.form = Ref(FormUpdate(Deref(m.form), msg, env))], env)

\* Update, case projectState, after m.project.Refresh returned r (lines 295-299)
refreshed(m1, p, r) ==
    IF r.err
    THEN Ret([m1 EXCEPT !.heap[p].worktrees = r.worktrees, !.err = Ref("Refresh")], {})
    ELSE IF m1.wtList = Nil THEN Panic([m1 EXCEPT !.heap[p].worktrees = r.worktrees])
    ELSE Ret([m1 EXCEPT !.heap[p].worktrees = r.worktrees,
                        !.wtList = Ref(Items(r.worktrees))], {})

\* Update, case projectState, cmdFinishedMsg after m.err is set (lines 294-301)
finishedCommand(m1, env) ==
    IF m1.project # Nil
    THEN refreshed(m1, Deref(m1.project),
                   Refresh(At(m1, m1.project).worktrees, env.dir, RunsOf(UiRun)))
    ELSE Ret(m1, {})

\* Update, case projectState (lines 271-312)
UpdateProjectState(m, msg, env) ==
    IF msg.type = "worktreeSelectedMsg" /\ msg.action \in {"ActionReview", "ActionInteract"}
    THEN IF msg.worktree = Nil THEN Panic([m EXCEPT !.selectedWorktree = Nil])
         ELSE Ret([m EXCEPT !.selectedWorktree = msg.worktree], {FinishedMsg})
    ELSE IF msg.type = "worktreeSelectedMsg" /\ msg.action = "ActionCreate"
    THEN IF m.project = Nil THEN Panic(m)
         ELSE Ret(setForm(m, Ref(newWorktreeForm(Title(At(m, m.project)))),
                          "newWorktreeState"), {})
    ELSE IF msg.type = "worktreeSelectedMsg" /\ msg.action = "ActionDelete"
    THEN IF msg.worktree = Nil THEN Panic([m EXCEPT !.selectedWorktree = Nil])
         ELSE Ret(setForm([m EXCEPT !.selectedWorktree = msg.worktree],
                          Ref(deleteConfirmForm("worktree", Deref(msg.worktree), "")),
                          "deleteWorktreeState"), {})
    ELSE IF msg.type = "worktreeSelectedMsg" /\ msg.action = "ActionBack"
    THEN startLoadProjects([m EXCEPT !.project = Nil, !.wtList = Nil, !.state = "mainState"])
    ELSE IF msg.type = "cmdFinishedMsg"
    THEN finishedCommand(IF msg.err THEN [m EXCEPT !.err = Ref("cmd")] ELSE m, env)
    ELSE IF m.wtList = Nil THEN Panic(m)
    ELSE Ret(m, WorktreeListUpdate(Deref(m.wtList), msg, env.cursor))

\* Update, case projectsLoadedMsg (lines 316-327); the projects that
\* LoadProjects built are at the addresses given
projectsLoaded(m, msg, addresses) ==
    IF Len(msg.projects) = 0 /\ ~msg.err
    THEN Ret(setForm([m EXCEPT !.loading = FALSE, !.err = Nil,
                               !.projectList = Ref(addresses)],
                     Ref(cloneForm), "newRepoState"), {})
    ELSE Ret([m EXCEPT !.loading = FALSE,
                       !.err = IF msg.err THEN Ref("LoadProjects") ELSE Nil,
                       !.heap = Allocate(m.heap, msg.projects, addresses),
                       !.projectList = Ref(addresses)], {})

\* Update, default case: mainState (lines 314-366)
UpdateMainState(m, msg, env) ==
    IF msg.type = "projectsLoadedMsg"
    THEN projectsLoaded(m, msg, NewAddresses(DOMAIN m.heap, Len(msg.projects), 1))
    ELSE IF msg.type = "projectSelectedMsg" /\ msg.action = "ProjectActionExplore"
    THEN IF msg.project = Nil THEN Panic([m EXCEPT !.project = Nil])
         ELSE LET p == At(m, msg.project)
                  m1 == [m EXCEPT !.project = msg.project,
                                  !.wtList = Ref(Items(p.worktrees)),
                                  !.state = "projectState"]
              IN IF Len(p.worktrees) = 0
                 THEN Ret(setForm(m1, Ref(newWorktreeForm(Title(p))), "newWorktreeState"),
                          {})
                 ELSE Ret(m1, {})
    ELSE IF msg.type = "projectSelectedMsg" /\ msg.action = "ProjectActionClone"
    THEN Ret(setForm(m, Ref(cloneForm), "newRepoState"), {})
    ELSE IF msg.type = "projectSelectedMsg" /\ msg.action = "ProjectActionDelete"
    THEN IF msg.project = Nil THEN Panic([m EXCEPT !.selectedProject = Nil])
         ELSE Ret(setForm([m EXCEPT !.selectedProject = msg.project],
                          Ref(deleteConfirmForm("project", <<>>,
                                                Title(At(m, msg.project)))),
                          "deleteProjectState"), {})
    ELSE IF msg.type = "projectSelectedMsg" /\ msg.action = "ProjectActionQuit"
    THEN [Ret(m, {}) EXCEPT !.quit = TRUE]
    ELSE IF msg.type = "cmdFinishedMsg"
    THEN Ret([m EXCEPT !.err = IF msg.err THEN Ref("cmd") ELSE Nil], {})
    ELSE IF m.projectList # Nil
    THEN Ret(m, ProjectListUpdate(Deref(m.projectList), msg, env.cursor))
    ELSE IF m.wtList # Nil
    THEN Ret(m, WorktreeListUpdate(Deref(m.wtList), msg, env.cursor))
    ELSE Ret(m, {})

\* func (m *model) Update(msg tea.Msg) (tea.Model, tea.Cmd)
Update(m, msg, env) ==
    IF msg.type = "TickMsg" /\ m.loading THEN Ret(m, {})
    ELSE IF /\ msg.type = "cmdFinishedMsg" /\ msg.err
            /\ m.state \in {"newRepoState", "deleteProjectState"}
    THEN startLoadProjects([m EXCEPT !.err = Ref("cmd"), !.form = Nil,
                                     !.selectedProject = Nil, !.state = "mainState"])
    ELSE IF /\ msg.type = "cmdFinishedMsg" /\ msg.err
            /\ m.state \in {"newWorktreeState", "deleteWorktreeState"}
    THEN Ret([m EXCEPT !.err = Ref("cmd"), !.form = Nil, !.selectedWorktree = Nil,
                       !.state = "projectState"], {})
    ELSE IF m.state \in FormStates THEN formUpdate(m, msg, env)
    ELSE IF m.state = "projectState" THEN UpdateProjectState(m, msg, env)
    ELSE UpdateMainState(m, msg, env)

\* func (m *model) View() string: the error text it renders (nil: none) and
\* the widget it renders ("": none)
ModelView(m) ==
    IF m.state \in FormStates
    THEN [panic |-> m.form = Nil, err |-> Nil, body |-> "form"]
    ELSE IF m.state = "projectState"
    THEN [panic |-> m.wtList = Nil, err |-> Nil, body |-> "wtList"]
    ELSE IF m.err # Nil /\ m.projectList # Nil
    THEN [panic |-> FALSE, err |-> m.err, body |-> "projectList"]
    ELSE IF m.err # Nil THEN [panic |-> FALSE, err |-> m.err, body |-> ""]
    ELSE IF m.projectList # Nil THEN [panic |-> FALSE, err |-> Nil, body |-> "projectList"]
    ELSE IF m.loading THEN [panic |-> FALSE, err |-> Nil, body |-> "spinner"]
    ELSE [panic |-> FALSE, err |-> Nil, body |-> ""]

\* most messages of commands in flight at once in the model
MaxPending == 2

\* what the user can do to the form of a state with one key, and what the
\* calls made when the form completes return
FormEnvs(s) ==
    {[DefaultEnv EXCEPT !.form = [State |-> "StateNormal", name |-> <<>>, confirm |-> FALSE]],
     [DefaultEnv EXCEPT !.form = [State |-> "StateAborted", name |-> <<>>, confirm |-> FALSE]]}
    \cup
    IF s = "newRepoState"
    THEN {[DefaultEnv EXCEPT !.form = [State |-> "StateCompleted", name |-> <<>>,
                                       confirm |-> FALSE],
                             !.cloneErr = e] : e \in BOOLEAN}
    ELSE IF s = "newWorktreeState"
    THEN {[DefaultEnv EXCEPT !.form = [State |-> "StateCompleted", name |-> n,
                                       confirm |-> FALSE],
                             !.createErr = e] : n \in UiNames, e \in BOOLEAN}
    ELSE IF s = "deleteWorktreeState"
    THEN {[DefaultEnv EXCEPT !.form = [State |-> "StateCompleted", name |-> <<>>,
                                       confirm |-> c],
                             !.deleteErr = e] : c \in BOOLEAN, e \in BOOLEAN}
    ELSE {[DefaultEnv EXCEPT !.form = [State |-> "StateCompleted", name |-> <<>>,
                                       confirm |-> c],
                             !.rmRepoErr = e[1], !.rmWtErr = e[2]] :
              c \in BOOLEAN, e \in BOOLEAN \X BOOLEAN}

\* the messages in flight are a bag: a message is held with a copy number
Put(pending, msgs) ==
    pending \cup {[msg |-> x, copy |-> IF [msg |-> x, copy |-> 1] \in pending THEN 2 ELSE 1] :
                      x \in msgs}

Take(pending, x) ==
    IF [msg |-> x, copy |-> 2] \in pending THEN pending \ {[msg |-> x, copy |-> 2]}
    ELSE pending \ {[msg |-> x, copy |-> 1]}

UiInFlight == {e.msg : e \in uiPending}

\* what is recorded of an Update that made no destructive call
NoneDestroyed ==
    [msg |-> "", state |-> "mainState", form |-> Nil, destroyed |-> <<>>, closed |-> Nil]

\* the program starts: NewModel, and Init's command loads the projects
InitUi ==
    /\ ui = NewModel
    /\ uiPending = Put({}, {LoadedMsg})
    /\ uiPanic = FALSE
    /\ uiQuit = FALSE
    /\ uiLast = NoneDestroyed
    /\ uiView = ModelView(NewModel)

\* the addresses the model, its project list and the messages in flight hold
Live(m, pending) ==
    {Deref(p) : p \in {m.project, m.selectedProject} \ {Nil}}
        \cup (IF m.projectList = Nil THEN {}
              ELSE {Deref(m.projectList)[i] : i \in DOMAIN Deref(m.projectList)})
        \cup {Deref(e.msg.project) : e \in {x \in pending : x.msg.project # Nil}}

\* a set of addresses in ascending order
RECURSIVE Ascending(_)
Ascending(S) ==
    IF S = {} THEN <<>>
    ELSE LET a == CHOOSE x \in S : \A y \in S : x <= y
         IN <<a>> \o Ascending(S \ {a})

\* the addresses in use: those of the project list first
InUse(m, pending) ==
    IF m.projectList = Nil THEN Ascending(Live(m, pending))
    ELSE Deref(m.projectList)
             \o Ascending(Live(m, pending)
                              \ {Deref(m.projectList)[i] : i \in DOMAIN Deref(m.projectList)})

\* where the Project at address p is after the move (nil stays nil)
Moved(order, p) ==
    IF p = Nil THEN Nil ELSE Ref(CHOOSE i \in DOMAIN order : order[i] = Deref(p))

\* An address has no meaning but the object it names.  After each Update the
\* garbage collector frees every Project nothing points to and the others are
\* renamed in the given order, in the model and in the messages in flight.
CollectGarbage(m, order) ==
    [m EXCEPT !.heap = [i \in DOMAIN order |-> m.heap[order[i]]],
              !.project = Moved(order, @),
              !.selectedProject = Moved(order, @),
              !.projectList = IF @ = Nil THEN Nil
                              ELSE Ref([i \in DOMAIN Deref(@) |->
                                           Deref(Moved(order, Ref(Deref(@)[i])))])]

MovePending(pending, order) ==
    {[e EXCEPT !.msg.project = Moved(order, @)] : e \in pending}

UiKeep(r, v, msg, pending, order) ==
    /\ ui' = CollectGarbage(r.m, order)
    /\ uiPending' = MovePending(pending, order)
    /\ uiPanic' = (r.panic \/ v.panic)
    /\ uiQuit' = r.quit
    /\ uiLast' = IF r.destroyed = <<>> THEN NoneDestroyed
                  ELSE [msg |-> msg.type, state |-> ui.state, form |-> ui.form,
                        destroyed |-> r.destroyed, closed |-> r.closed]
    /\ uiView' = v
    /\ UNCHANGED nonUiVars

UiSent(r, v, msg, pending) == UiKeep(r, v, msg, pending, InUse(r.m, pending))

\* Bubble Tea delivers msg: Update runs, its command's messages are in flight,
\* and View renders the new model
\* the model returned by Update is kept and the view v of it is drawn
UiShow(r, v, msg, rest) == UiSent(r, v, msg, Put(rest, r.cmds))

UiUpdated(r, msg, rest) == UiShow(r, ModelView(r.m), msg, rest)

UiStep(msg, env, rest) == UiUpdated(Update(ui, msg, env), msg, rest)

UiRunning == ~uiPanic /\ ~uiQuit

\* the user presses a key while a list is shown
UiKey ==
    /\ UiRunning
    /\ ui.state \notin FormStates
    /\ Cardinality(uiPending) < MaxPending
    /\ \E k \in UiKeys, c \in 1..2 :
           UiStep(KeyMsg(k), [DefaultEnv EXCEPT !.cursor = c], uiPending)

\* the user presses a key while a form is shown
UiFormKey ==
    /\ UiRunning
    /\ ui.state \in FormStates
    /\ \E env \in FormEnvs(ui.state) : UiStep(KeyMsg("x"), env, uiPending)

\* the spinner ticks
UiTick ==
    /\ UiRunning
    /\ UiStep(TickMsg, DefaultEnv, uiPending)

\* loadProjects returns
UiLoaded ==
    /\ UiRunning
    /\ LoadedMsg \in UiInFlight
    /\ \E l \in LoadResults :
           UiStep([LoadedMsg EXCEPT !.err = l.err, !.projects = l.projects], DefaultEnv,
                  Take(uiPending, LoadedMsg))

\* the external command of a review or an interaction returns
UiFinished ==
    /\ UiRunning
    /\ FinishedMsg \in UiInFlight
    /\ \E e \in BOOLEAN, d \in UiDirs :
           UiStep([FinishedMsg EXCEPT !.err = e], [DefaultEnv EXCEPT !.dir = d],
                  Take(uiPending, FinishedMsg))

\* the selection message of a list arrives
UiSelected ==
    /\ UiRunning
    /\ \E msg \in UiInFlight :
           /\ msg.type \in {"worktreeSelectedMsg", "projectSelectedMsg"}
           /\ UiStep(msg, DefaultEnv, Take(uiPending, msg))

NextUi == UiKey \/ UiFormKey \/ UiTick \/ UiLoaded \/ UiFinished \/ UiSelected

\* C33: when an operation has failed and an Update has stored its error in the
\* model, the view drawn after that Update renders the error text, together
\* with the list already loaded, in every UI state.
C33_ErrorRendered ==
    [][(ui'.err # Nil /\ ui'.err # ui.err) =>
           /\ uiView'.err = ui'.err
           /\ (ui'.state = "mainState" /\ ui'.projectList # Nil) =>
                  uiView'.body = "projectList"
           /\ ui'.state = "projectState" => uiView'.body = "wtList"]_vars

\* C39: under any order of arrival of the messages, a form state has a form,
\* the states of a project have the project and its list, a delete state has
\* the item selected for deletion, and no handler and no View dereferences nil.
C39_NoNilDereference ==
    /\ ~uiPanic
    /\ ui.state \in FormStates => ui.form # Nil
    /\ ui.state \in {"projectState", "newWorktreeState", "deleteWorktreeState"} =>
           ui.project # Nil /\ ui.wtList # Nil
    /\ ui.state = "deleteWorktreeState" => ui.selectedWorktree # Nil
    /\ ui.state = "deleteProjectState" => ui.selectedProject # Nil

\* a delete form is open while the message that leaves the worktree list is
\* still in flight
C39_Witness ==
    /\ ui.state = "deleteWorktreeState"
    /\ ui.selectedWorktree = Ref(<<98>>)
    /\ Msg("worktreeSelectedMsg", "ActionBack", Nil, Nil) \in UiInFlight
    /\ ~uiPanic

\* C40: every destructive call is made by the completion of the matching
\* delete form with confirm = true, on the item the form was opened for; an
\* aborted or declined form and a command-finished error delete nothing.
C40_DestroyOnlyConfirmed ==
    \A i \in DOMAIN uiLast.destroyed :
        LET d == uiLast.destroyed[i]
        IN /\ uiLast.closed # Nil
           /\ uiLast.form # Nil
           /\ uiLast.msg = "KeyMsg"
           /\ Deref(uiLast.closed).kind = "deleteConfirmForm"
           /\ Deref(uiLast.closed).State = "StateCompleted"
           /\ Deref(uiLast.closed).confirm
           /\ Deref(uiLast.closed).subject = Deref(uiLast.form).subject
           /\ d.call = "DeleteWorktree" =>
                  /\ uiLast.state = "deleteWorktreeState"
                  /\ Deref(uiLast.closed).subject.kind = "worktree"
                  /\ d.name = Deref(uiLast.closed).subject.name
           /\ d.call = "RemoveAll" =>
                  /\ uiLast.state = "deleteProjectState"
                  /\ Deref(uiLast.closed).subject.kind = "project"
                  /\ \E repo \in {"api", "web"} :
                         /\ Deref(uiLast.closed).subject.title = "o/" \o repo
                         /\ d.path \in {"repo/" \o repo, "worktree/" \o repo}

\* the delete form opened for worktree b of a and b was confirmed, and b is gone
C40_Witness ==
    /\ uiLast.destroyed = <<Destroy("DeleteWorktree", <<98>>, "")>>
    /\ uiLast.closed # Nil
    /\ Deref(uiLast.closed).confirm
    /\ ui.state = "projectState"
    /\ ui.wtList = Ref(<< <<97>> >>)

-----------------------------------------------------------------------------
(* Specifications: each runs one component and leaves the others at rest *)

\* one worktree is refreshed and described
InitSpecStatus ==
    InitStatus /\ InitRL({1}, {}, 0) /\ InitCache({}, {}, FALSE)
        /\ InitProject /\ InitComments /\ InitPages /\ InitLoop
        /\ InitReview /\ InitClient /\ InitOrigin /\ InitFormat /\ InitAgent
        /\ InitLoad /\ InitFetch /\ InitStart({""}) /\ InitUi

SpecStatus == InitSpecStatus /\ [][NextStatus]_vars

\* one caller calls Wait sequentially
InitSpecRLSeq ==
    InitStatus /\ InitRL(1..MaxN, {1}, MaxCalls) /\ InitCache({}, {}, FALSE)
        /\ InitProject /\ InitComments /\ InitPages /\ InitLoop
        /\ InitReview /\ InitClient /\ InitOrigin /\ InitFormat /\ InitAgent
        /\ InitLoad /\ InitFetch /\ InitStart({""}) /\ InitUi

SpecRLSeq == InitSpecRLSeq /\ [][NextRL]_vars

\* NumGoroutines goroutines call Wait concurrently
InitSpecRLConc ==
    InitStatus /\ InitRL(1..MaxN, Goroutines, ConcCalls) /\ InitCache({}, {}, FALSE)
        /\ InitProject /\ InitComments /\ InitPages /\ InitLoop
        /\ InitReview /\ InitClient /\ InitOrigin /\ InitFormat /\ InitAgent
        /\ InitLoad /\ InitFetch /\ InitStart({""}) /\ InitUi

SpecRLConc == InitSpecRLConc /\ [][NextRL]_vars

\* one goroutine calls every method of a ReviewCache and mutates the maps it gets
InitSpecCache ==
    InitStatus /\ InitRL({1}, {}, 0) /\ InitCache({1}, CacheOps, TRUE)
        /\ InitProject /\ InitComments /\ InitPages /\ InitLoop
        /\ InitReview /\ InitClient /\ InitOrigin /\ InitFormat /\ InitAgent
        /\ InitLoad /\ InitFetch /\ InitStart({""}) /\ InitUi

SpecCache == InitSpecCache /\ [][NextCache]_vars

\* two goroutines read and write one ReviewCache concurrently
InitSpecCacheConc ==
    InitStatus /\ InitRL({1}, {}, 0) /\ InitCache(Procs, CacheOps \ GetAllOps, FALSE)
        /\ InitProject /\ InitComments /\ InitPages /\ InitLoop
        /\ InitReview /\ InitClient /\ InitOrigin /\ InitFormat /\ InitAgent
        /\ InitLoad /\ InitFetch /\ InitStart({""}) /\ InitUi

SpecCacheConc == InitSpecCacheConc /\ [][NextCacheConc]_vars

\* one project's worktrees are added, deleted and reloaded from disk
InitSpecProject ==
    InitStatus /\ InitRL({1}, {}, 0) /\ InitCache({}, {}, FALSE)
        /\ InitProject /\ InitComments /\ InitPages /\ InitLoop
        /\ InitReview /\ InitClient /\ InitOrigin /\ InitFormat /\ InitAgent
        /\ InitLoad /\ InitFetch /\ InitStart({""}) /\ InitUi

SpecProject == InitSpecProject /\ [][NextProject]_vars

\* review comments of pull requests are fetched and filtered
InitSpecComments ==
    InitStatus /\ InitRL({1}, {}, 0) /\ InitCache({}, {}, FALSE)
        /\ InitProject /\ InitComments /\ InitPages /\ InitLoop
        /\ InitReview /\ InitClient /\ InitOrigin /\ InitFormat /\ InitAgent
        /\ InitLoad /\ InitFetch /\ InitStart({""}) /\ InitUi

SpecComments == InitSpecComments /\ [][NextComments]_vars

\* one listAllPRs call pages through an endpoint
InitSpecPages ==
    InitStatus /\ InitRL({1}, {}, 0) /\ InitCache({}, {}, FALSE)
        /\ InitProject /\ InitComments /\ InitPages /\ InitLoop
        /\ InitReview /\ InitClient /\ InitOrigin /\ InitFormat /\ InitAgent
        /\ InitLoad /\ InitFetch /\ InitStart({""}) /\ InitUi

SpecPages == InitSpecPages /\ [][NextPages]_vars

\* the control loop runs its ticks
InitSpecLoop ==
    InitStatus /\ InitRL({1}, {}, 0) /\ InitCache({}, {}, FALSE)
        /\ InitProject /\ InitComments /\ InitPages /\ InitLoop
        /\ InitReview /\ InitClient /\ InitOrigin /\ InitFormat /\ InitAgent
        /\ InitLoad /\ InitFetch /\ InitStart({""}) /\ InitUi

SpecLoop == InitSpecLoop /\ [][NextLoop]_vars

\* one worktree is reviewed
InitSpecReview ==
    InitStatus /\ InitRL({1}, {}, 0) /\ InitCache({}, {}, FALSE)
        /\ InitProject /\ InitComments /\ InitPages /\ InitLoop
        /\ InitReview /\ InitClient /\ InitOrigin /\ InitFormat /\ InitAgent
        /\ InitLoad /\ InitFetch /\ InitStart({""}) /\ InitUi

SpecReview == InitSpecReview /\ [][NextReview]_vars

\* the methods of the review client issue their requests
InitSpecClient ==
    InitStatus /\ InitRL({1}, {}, 0) /\ InitCache({}, {}, FALSE)
        /\ InitProject /\ InitComments /\ InitPages /\ InitLoop
        /\ InitReview /\ InitClient /\ InitOrigin /\ InitFormat /\ InitAgent
        /\ InitLoad /\ InitFetch /\ InitStart({""}) /\ InitUi

SpecClient == InitSpecClient /\ [][NextClient]_vars

\* one remote origin is parsed
InitSpecOrigin ==
    InitStatus /\ InitRL({1}, {}, 0) /\ InitCache({}, {}, FALSE)
        /\ InitProject /\ InitComments /\ InitPages /\ InitLoop
        /\ InitReview /\ InitClient /\ InitOrigin /\ InitFormat /\ InitAgent
        /\ InitLoad /\ InitFetch /\ InitStart({""}) /\ InitUi

SpecOrigin == InitSpecOrigin /\ [][NextOrigin]_vars

\* one review is formatted
InitSpecFormat ==
    InitStatus /\ InitRL({1}, {}, 0) /\ InitCache({}, {}, FALSE)
        /\ InitProject /\ InitComments /\ InitPages /\ InitLoop
        /\ InitReview /\ InitClient /\ InitOrigin /\ InitFormat /\ InitAgent
        /\ InitLoad /\ InitFetch /\ InitStart({""}) /\ InitUi

SpecFormat == InitSpecFormat /\ [][NextFormat]_vars

\* the execution agent is invoked
InitSpecAgent ==
    InitStatus /\ InitRL({1}, {}, 0) /\ InitCache({}, {}, FALSE)
        /\ InitProject /\ InitComments /\ InitPages /\ InitLoop
        /\ InitReview /\ InitClient /\ InitOrigin /\ InitFormat /\ InitAgent
        /\ InitLoad /\ InitFetch /\ InitStart({""}) /\ InitUi

SpecAgent == InitSpecAgent /\ [][NextAgent]_vars

\* the workspace is loaded, then a worktree is added and worktrees are reviewed
InitSpecLoad ==
    InitStatus /\ InitRL({1}, {}, 0) /\ InitCache({}, {}, FALSE)
        /\ InitProject /\ InitComments /\ InitPages /\ InitLoop
        /\ InitReview /\ InitClient /\ InitOrigin /\ InitFormat /\ InitAgent
        /\ InitLoad /\ InitFetch /\ InitStart({""}) /\ InitUi

SpecLoad == InitSpecLoad /\ [][NextLoad]_vars

\* two goroutines call Wait twice each, at two requests per second; the Go
\* scheduler lets every goroutine that can take a step take one, and a Lock
\* returns once the mutex stays free
InitSpecRLFair ==
    InitStatus /\ InitRL({2}, {1, 2}, 2) /\ InitCache({}, {}, FALSE)
        /\ InitProject /\ InitComments /\ InitPages /\ InitLoop
        /\ InitReview /\ InitClient /\ InitOrigin /\ InitFormat /\ InitAgent
        /\ InitLoad /\ InitFetch /\ InitStart({""}) /\ InitUi

SpecRLFair ==
    /\ InitSpecRLFair
    /\ [][NextRLFair]_vars
    /\ WF_vars(RlClock)
    /\ \A g \in Goroutines : WF_vars(RlStep(g))

\* fetchReviews is run once on a loaded workspace
InitSpecFetch ==
    InitStatus /\ InitRL({1}, {}, 0) /\ InitCache({}, {}, FALSE)
        /\ InitProject /\ InitComments /\ InitPages /\ InitLoop
        /\ InitReview /\ InitClient /\ InitOrigin /\ InitFormat /\ InitAgent
        /\ InitLoad /\ InitFetch /\ InitStart({""}) /\ InitUi

SpecFetch == InitSpecFetch /\ [][NextFetch]_vars

\* the server is started, clients offer passwords, the context is cancelled
InitSpecStart ==
    InitStatus /\ InitRL({1}, {}, 0) /\ InitCache({}, {}, FALSE)
        /\ InitProject /\ InitComments /\ InitPages /\ InitLoop
        /\ InitReview /\ InitClient /\ InitOrigin /\ InitFormat /\ InitAgent
        /\ InitLoad /\ InitFetch /\ InitStart(Passkeys) /\ InitUi

SpecStart == InitSpecStart /\ [][NextStart]_vars

\* the interactive model is started and takes keys, ticks and results
InitSpecUi ==
    InitStatus /\ InitRL({1}, {}, 0) /\ InitCache({}, {}, FALSE)
        /\ InitProject /\ InitComments /\ InitPages /\ InitLoop
        /\ InitReview /\ InitClient /\ InitOrigin /\ InitFormat /\ InitAgent
        /\ InitLoad /\ InitFetch /\ InitStart({""}) /\ InitUi

SpecUi == InitSpecUi /\ [][NextUi]_vars

=============================================================================
